---- MODULE Spec2Model ----
(***************************************************************************)
(* Model of the ATS resume layout engine (src/src/utils/atsPdfEngine.ts):  *)
(* model building, the adaptive compressor adaptToFit with its section     *)
(* contract enforcers, the greedy paginator and the strict two-page        *)
(* allocator, and the two public entry points that share layoutForPdf.     *)
(*                                                                         *)
(* Lengths are in hundredths of a point (728pt = 72800), so that the       *)
(* fractional line heights of the engine (12.65pt, 12.1pt, 14.4pt, 13.2pt) *)
(* are integers.                                                           *)
(*                                                                         *)
(* A text is a sequence of words.  A word is a record                      *)
(*   [src |-> the bullet / paragraph of the resume it came from,           *)
(*    cls |-> its class, which decides what the rewriting rules do to it,  *)
(*    end |-> the punctuation characters attached to its end,              *)
(*    w   |-> its measured width at 11pt in the regular font]              *)
(* Classes: "n" plain word, "l" long word, "u" unbreakable 43-character    *)
(* token (a URL), "p" parenthetical "(...)", "f" filler adjective          *)
(* ("highly"), "v" verbose verb ("utilized"), "s" its replacement ("used"),*)
(* "g" the word "using", "a" the word "and", "t" the word "Tech",          *)
(* "e" a pictograph, "z" punctuation left alone after its word was         *)
(* deleted.  The resumes enumerated contain no commas, colons, brackets or *)
(* multi-word connector phrases.                                           *)
(***************************************************************************)
EXTENDS Integers, Sequences, FiniteSets, TLC

\* ---------------------------------------------------------------------
\* Global PDF + layout constants (hundredths of a point)
\* ---------------------------------------------------------------------
A4_WIDTH_PT == 59500
A4_HEIGHT_PT == 84200
MARGIN_PT == 5700
MIN_MARGIN_PT == 4300
CONTENT_WIDTH_PT == A4_WIDTH_PT - MARGIN_PT * 2
CONTENT_HEIGHT_PT == A4_HEIGHT_PT - MARGIN_PT * 2

BODY_LINE_HEIGHT == 1265
BULLET_LINE_HEIGHT == 1210
HEADING_LINE_HEIGHT == 1440

GAP_HEADING_TO_CONTENT == 900
GAP_BETWEEN_BULLETS == 300
GAP_BETWEEN_SECTIONS == 1400
GAP_BETWEEN_ITEMS == 600

SUMMARY_MAX_HEIGHT_PT == 7000
SUMMARY_MAX_LINES == 4
SUMMARY_ATTEMPTS == 8

ROLE_HEADER_HEIGHT_PT == 3200
ROLE_GAP_AFTER_HEADER_PT == 200
ROLE_MAX_HEIGHT_ONE_PAGE_PT == 10000
ROLE_MAX_HEIGHT_TWO_PAGE_PT == 12000
ROLE_BULLETS_MIN == 2
ROLE_BULLETS_MAX_ONE_PAGE == 2
ROLE_BULLETS_MAX_TWO_PAGE == 3
ROLE_ATTEMPTS == 6
BULLET_WORDS_MIN == 16
BULLET_WORDS_MAX == 20

PROJECTS_MAX_ONE_PAGE == 2
PROJECTS_MAX_TWO_PAGE == 4
PROJECTS_KEPT == 4
PROJECTS_GAP_AFTER_HEADER_PT == 600
PROJECT_TITLE_LINE_HEIGHT == 1320
PROJECT_TITLE_TO_BULLETS_GAP_PT == 200
PROJECT_BULLETS_MAX == 2
PROJECT_BULLET_WORDS_MIN == 18
PROJECT_BULLET_WORDS_MAX == 22
PROJECT_MAX_HEIGHT_ONE_PAGE_PT == 6500
PROJECT_MAX_HEIGHT_TWO_PAGE_PT == 7500
PROJECT_ATTEMPTS == 6

SKILLS_MAX_CATEGORIES == 4
SKILLS_MAX_LINES == 4
SKILLS_MAX_CHARS_PER_LINE == 90
SKILLS_MAX_HEIGHT_ONE_PAGE_PT == 5500
SKILLS_MAX_HEIGHT_TWO_PAGE_PT == 7000
SKILLS_MAX_PER_CATEGORY_ONE_PAGE == 8
SKILLS_MAX_PER_CATEGORY_TWO_PAGE == 10
SKILLS_CORE == 5

EDUCATION_ENTRY_HEIGHT_PT == 3200
EDUCATION_TWO_ENTRIES_MAX_HEIGHT_PT == 6500
EDUCATION_MAX_ENTRIES_ONE_PAGE == 1
EDUCATION_MAX_ENTRIES_TWO_PAGE == 2

HEADER_MAX_WIDTH_PT == 48200
HEADER_MAX_HEIGHT_PT == 5500
HEADER_NAME_LINE_HEIGHT == 1900
HEADER_TITLE_FONT_SIZE == 1200
HEADER_TITLE_FONT_SIZE_MIN == 1150
HEADER_TITLE_LINE_HEIGHT == 1300
HEADER_CONTACT_LINE_HEIGHT == 1000
HEADER_GAP_TITLE_TO_CONTACT == 200

\* Font metrics of the regular font at 11pt: a space, a punctuation
\* character, an average letter, and the indent of a bullet's text.
SPACE_W == 306
PUNCT_W == 306
CHAR_W == 550
BULLET_INDENT_PT == 1272
HARD_BREAK_CHARS == 16

Min(a, b) == IF a <= b THEN a ELSE b
Max(a, b) == IF a >= b THEN a ELSE b

\* ---------------------------------------------------------------------
\* Words and texts
\* ---------------------------------------------------------------------
ClsChars(c) ==
  CASE c = "n" -> 5
    [] c = "l" -> 10
    [] c = "u" -> 43
    [] c = "p" -> 7
    [] c = "f" -> 6
    [] c = "v" -> 8
    [] c = "s" -> 4
    [] c = "g" -> 5
    [] c = "a" -> 3
    [] c = "t" -> 4
    [] c = "e" -> 2
    [] OTHER -> 0

Word(src, c) == [src |-> src, cls |-> c, end |-> <<>>, w |-> ClsChars(c) * CHAR_W]

\* n words of class c from source src
Words(src, c, n) == [i \in 1..n |-> Word(src, c)]

LastEnd(wd) == IF Len(wd.end) = 0 THEN "" ELSE wd.end[Len(wd.end)]

\* the word with one punctuation character appended
AppendPunct(wd, ch) == [wd EXCEPT !.end = Append(@, ch), !.w = @ + PUNCT_W]

\* the word with its last punctuation character removed
DropPunct(wd) ==
  [wd EXCEPT !.end = SubSeq(@, 1, Len(@) - 1), !.w = @ - PUNCT_W]

\* text.replace(/[;,:-]?$/, "") + "." and text.replace(/[;,:-]?$/, ".")
EndWithPeriod(t) ==
  LET n == Len(t)
      lw == t[n]
      base == IF LastEnd(lw) \in {";", ":"} THEN DropPunct(lw) ELSE lw
  IN [t EXCEPT ![n] = AppendPunct(base, ".")]

\* Deleting a word from running text leaves the punctuation that followed it
\* as a token of its own.
DeleteWord(wd) ==
  IF Len(wd.end) = 0 THEN <<>>
  ELSE << [wd EXCEPT !.cls = "z", !.w = PUNCT_W * Len(wd.end)] >>

\* t.replace(<words of the classes>, ""): the words of the given classes deleted
DeleteClasses(t, classes) ==
  LET deleted(wd) == wd.cls \in classes /\ Len(wd.end) = 0
      kept == SelectSeq(t, LAMBDA wd : ~deleted(wd))
  IN [i \in 1..Len(kept) |->
        IF kept[i].cls \in classes THEN DeleteWord(kept[i])[1] ELSE kept[i]]

sanitizeText(t) == DeleteClasses(t, {"e"})

countWords(t) == Len(t)

clampWords(t, maxWords) ==
  IF Len(t) <= maxWords THEN t
  ELSE EndWithPeriod(SubSeq(t, 1, maxWords))

\* the single-word entries of the phrase tables: utilized/leveraged -> used
ReplacePhrases(t) ==
  [i \in 1..Len(t) |->
     IF t[i].cls = "v"
       THEN [t[i] EXCEPT !.cls = "s",
                         !.w = @ - ClsChars("v") * CHAR_W + ClsChars("s") * CHAR_W]
       ELSE t[i]]

RemoveParentheticals(t) == DeleteClasses(t, {"p"})

compressToWordBudget(t, max) ==
  LET t1 == RemoveParentheticals(sanitizeText(t))
  IN IF countWords(t1) <= max THEN t1 ELSE clampWords(t1, max)

compressBulletToWordRange(t, max) ==
  LET t1 == ReplacePhrases(RemoveParentheticals(sanitizeText(t)))
  IN IF countWords(t1) <= max THEN t1 ELSE clampWords(t1, max)

removeFillerAdjectives(t) == DeleteClasses(t, {"f"})

\* t.replace(/:\s*/g, " using "): a colon after a word becomes the word "using"
RECURSIVE ColonsToUsing(_)
ColonsToUsing(t) ==
  IF t = <<>> THEN <<>>
  ELSE LET wd == Head(t)
       IN (IF LastEnd(wd) = ":"
             THEN (IF wd.cls = "z" /\ Len(wd.end) = 1 THEN <<>> ELSE <<DropPunct(wd)>>)
                    \o <<Word(wd.src, "g")>>
             ELSE <<wd>>)
            \o ColonsToUsing(Tail(t))

stripProjectBulletDisallowedPatterns(t) ==
  removeFillerAdjectives(ColonsToUsing(sanitizeText(t)))

compressProjectBulletToWordRange(t, max) ==
  LET t1 == removeFillerAdjectives(ReplacePhrases(stripProjectBulletDisallowedPatterns(t)))
  IN IF countWords(t1) <= max THEN t1 ELSE clampWords(t1, max)

SetMin(S) == CHOOSE x \in S : \A y \in S : x <= y

\* the first index at or after i whose word ends with a semicolon (0: none)
FirstSemicolon(t, i) ==
  LET at == {k \in i..Len(t) : LastEnd(t[k]) = ";"}
  IN IF at = {} THEN 0 ELSE SetMin(at)

StripSemicolon(t) ==
  IF t # <<>> /\ LastEnd(t[Len(t)]) = ";"
    THEN (IF t[Len(t)].cls = "z" /\ Len(t[Len(t)].end) = 1
            THEN SubSeq(t, 1, Len(t) - 1)
            ELSE [t EXCEPT ![Len(t)] = DropPunct(@)])
    ELSE t

\* text.split(/\s*;\s*/) into its first part and the rest re-joined with "; ":
\* <<a, b>>, or <<>> when there are not two non-empty parts
SplitAtSemicolon(t) ==
  LET k == FirstSemicolon(t, 1)
      a == IF k = 0 THEN <<>> ELSE StripSemicolon(SubSeq(t, 1, k))
      b == IF k = 0 THEN <<>> ELSE StripSemicolon(SubSeq(t, k + 1, Len(t)))
  IN IF k = 0 \/ a = <<>> \/ b = <<>> THEN <<>> ELSE <<a, b>>

\* the indices of the words that match /\s+<word>\s+/: class c, inside the text
Inner(t, c) == {i \in 2..(Len(t) - 1) : t[i].cls = c /\ t[i].end = <<>>}

splitBulletIntoTwo(text) ==
  LET AtAnd(t, ands) ==
        LET k == SetMin(ands)
        IN IF Cardinality(ands) = 1
              /\ countWords(SubSeq(t, 1, k - 1)) >= 8
              /\ countWords(SubSeq(t, k + 1, Len(t))) >= 8
             THEN << [SubSeq(t, 1, k - 1) EXCEPT ![k - 1] = AppendPunct(@, ".")],
                     SubSeq(t, k + 1, Len(t)) >>
           ELSE <<t>>
      AtSemicolon(t, semi) ==
        IF semi # <<>> /\ countWords(semi[1]) >= 6 /\ countWords(semi[2]) >= 6
          THEN semi
          ELSE AtAnd(t, Inner(t, "a"))
      Split(t) == AtSemicolon(t, SplitAtSemicolon(t))
  IN Split(sanitizeText(text))

splitFeaturesAndTechAcrossBullets(bullets) ==
  IF Len(bullets) # 1 THEN bullets
  ELSE LET AtSemicolon(semi) ==
             IF semi # <<>> /\ countWords(semi[1]) >= 10 /\ countWords(semi[2]) >= 10
               THEN semi
               ELSE bullets
           AtUsing(one, us) ==
             LET k == SetMin(us)
             IN IF us # {}
                  THEN << EndWithPeriod(SubSeq(one, 1, k - 1)),
                          <<AppendPunct(Word(one[k].src, "t"), ":")>>
                             \o sanitizeText(SubSeq(one, k + 1, Len(one))) >>
                  ELSE AtSemicolon(SplitAtSemicolon(one))
       IN AtUsing(bullets[1], Inner(bullets[1], "g"))

\* texts.filter(Boolean)
RECURSIVE NonEmpty(_)
NonEmpty(ts) ==
  IF ts = <<>> THEN <<>>
  ELSE (IF Head(ts) = <<>> THEN <<>> ELSE <<Head(ts)>>) \o NonEmpty(Tail(ts))

\* parts.join("; ")
RECURSIVE JoinSemicolon(_)
JoinSemicolon(parts) ==
  IF parts = <<>> THEN <<>>
  ELSE IF Len(parts) = 1 THEN parts[1]
  ELSE [parts[1] EXCEPT ![Len(parts[1])] = AppendPunct(@, ";")]
         \o JoinSemicolon(Tail(parts))

\* the texts at positions b, b + k, b + 2k, ... (bucket b of k, 1-based)
RECURSIVE Bucket(_, _, _)
Bucket(texts, b, k) ==
  IF b > Len(texts) THEN <<>> ELSE <<texts[b]>> \o Bucket(texts, b + k, k)

\* not the code: the texts beyond the target are cut off
mergeBulletsByCutting(bullets, targetCount) == SubSeq(NonEmpty(bullets), 1, Min(targetCount, Len(NonEmpty(bullets))))

mergeBulletsToCount(bullets, targetCount) ==
  LET texts == NonEmpty(bullets)
  IN IF Len(texts) <= targetCount THEN texts
     ELSE IF targetCount <= 0 THEN << JoinSemicolon(texts) >>
     ELSE [b \in 1..targetCount |-> JoinSemicolon(Bucket(texts, b, targetCount))]

\* ---------------------------------------------------------------------
\* Text measurement / wrapping
\* ---------------------------------------------------------------------
\* the width of the first c characters of a word with L letters left
PrefixW(L, c) == Min(c, L) * CHAR_W + Max(0, c - L) * PUNCT_W

\* not the code: the chunk is never shortened to fit
LargestCutAsIs(L, cut, maxWidth) == cut

RECURSIVE LargestCut(_, _, _)
LargestCut(L, cut, maxWidth) ==
  IF cut > 1 /\ PrefixW(L, cut) > maxWidth THEN LargestCut(L, cut - 1, maxWidth) ELSE cut

\* the lines a word of L letters and P punctuation characters is broken into
RECURSIVE HardBreak(_, _, _, _)
HardBreak(src, L, P, maxWidth) ==
  IF L + P = 0 THEN <<>>
  ELSE LET cut == LargestCut(L, Min(L + P, HARD_BREAK_CHARS), maxWidth)
           piece == [src |-> src, cls |-> "k", end |-> <<>>, w |-> PrefixW(L, cut)]
       IN << <<piece>> >> \o HardBreak(src, Max(0, L - cut), P - Max(0, cut - L), maxWidth)

hardBreakWord(wd, maxWidth) ==
  HardBreak(wd.src, (wd.w - PUNCT_W * Len(wd.end)) \div CHAR_W, Len(wd.end), maxWidth)

RECURSIVE SumSeq(_)
SumSeq(s) == IF s = <<>> THEN 0 ELSE Head(s) + SumSeq(Tail(s))

\* the measured width of a text on one line
TextWidth(t) ==
  IF t = <<>> THEN 0
  ELSE SumSeq([i \in 1..Len(t) |-> t[i].w]) + (Len(t) - 1) * SPACE_W

\* the last word of the line whose words up to k take `width`: words are added
\* while the line, with single spaces, still fits
RECURSIVE LineEnd(_, _, _, _)
LineEnd(t, k, width, maxWidth) ==
  IF k < Len(t) /\ width + SPACE_W + t[k + 1].w <= maxWidth
    THEN LineEnd(t, k + 1, width + SPACE_W + t[k + 1].w, maxWidth)
    ELSE k

RECURSIVE WrapFrom(_, _, _)
WrapFrom(t, i, maxWidth) ==
  IF i > Len(t) THEN <<>>
  ELSE IF t[i].w > maxWidth
    THEN hardBreakWord(t[i], maxWidth) \o WrapFrom(t, i + 1, maxWidth)
  ELSE LET k == LineEnd(t, i, t[i].w, maxWidth)
       IN << SubSeq(t, i, k) >> \o WrapFrom(t, k + 1, maxWidth)

\* the lines of the text, each a sequence of words
wrapText(t, maxWidth) == WrapFrom(t, 1, maxWidth)

BULLET_WIDTH == CONTENT_WIDTH_PT - BULLET_INDENT_PT

WrapBullets(bullets) == [i \in 1..Len(bullets) |-> wrapText(bullets[i], BULLET_WIDTH)]

\* bullets: the wrapped lines of each bullet
measureBullets(bullets) ==
  IF Len(bullets) = 0 THEN 0
  ELSE SumSeq([i \in 1..Len(bullets) |-> Len(bullets[i]) * BULLET_LINE_HEIGHT])
         + (Len(bullets) - 1) * GAP_BETWEEN_BULLETS

measureRoleHeight(job) ==
  ROLE_HEADER_HEIGHT_PT + ROLE_GAP_AFTER_HEADER_PT + measureBullets(WrapBullets(job.bullets))

measureProjectHeight(project) ==
  PROJECT_TITLE_LINE_HEIGHT + PROJECT_TITLE_TO_BULLETS_GAP_PT
    + measureBullets(WrapBullets(project.bullets))

\* ---------------------------------------------------------------------
\* The layout model.  An item is a record
\*   [kind, id, title (project title), bullets (texts), lines (skill lines)];
\* a paragraph keeps its one line of text in bullets[1].
\* ---------------------------------------------------------------------
Item(kind, id, title, bullets, lines) ==
  [kind |-> kind, id |-> id, title |-> title, bullets |-> bullets, lines |-> lines]

Section(title, items) == [title |-> title, items |-> items]

RECURSIVE SelectSeqBy(_, _)
\* s.filter(x => x.kind = kind)
SelectSeqBy(s, kind) ==
  IF s = <<>> THEN <<>>
  ELSE (IF Head(s).kind = kind THEN <<Head(s)>> ELSE <<>>) \o SelectSeqBy(Tail(s), kind)

Slice(s, n) == SubSeq(s, 1, Min(n, Len(s)))

HasSection(model, title) == \E i \in 1..Len(model.sections) : model.sections[i].title = title

\* model.sections.find(s => s.title = title); used only when HasSection
SectionOf(model, title) ==
  model.sections[CHOOSE i \in 1..Len(model.sections) : model.sections[i].title = title]

ItemsOf(model, title) == IF HasSection(model, title) THEN SectionOf(model, title).items ELSE <<>>

\* model.sections.map(s => s.title = title ? f(s) : s), written per enforcer below
MapSection(model, title, newItems) ==
  [model EXCEPT !.sections =
     [i \in 1..Len(model.sections) |->
        IF model.sections[i].title = title
          THEN [model.sections[i] EXCEPT !.items = newItems]
          ELSE model.sections[i]]]

\* entries sorted newest first by year, stable
RECURSIVE InsertByYear(_, _)
InsertByYear(sorted, e) ==
  IF sorted = <<>> THEN <<e>>
  ELSE IF Head(sorted).year >= e.year THEN <<Head(sorted)>> \o InsertByYear(Tail(sorted), e)
  ELSE <<e>> \o sorted

RECURSIVE SortByYear(_)
SortByYear(es) ==
  IF es = <<>> THEN <<>>
  ELSE InsertByYear(SortByYear(SubSeq(es, 1, Len(es) - 1)), es[Len(es)])

buildEducationEntries(doc) == SortByYear(doc.education)

SkillLine(label, skills) == [label |-> label, skills |-> skills, tight |-> FALSE]

RECURSIVE DedupeFrom(_, _)
DedupeFrom(skills, seen) ==
  IF skills = <<>> THEN <<>>
  ELSE IF Head(skills).id \in seen THEN DedupeFrom(Tail(skills), seen)
  ELSE <<Head(skills)>> \o DedupeFrom(Tail(skills), seen \cup {Head(skills).id})

dedupeSkills(skills) == DedupeFrom(skills, {})

RECURSIVE CategoriesToLines(_)
CategoriesToLines(cats) ==
  IF cats = <<>> THEN <<>>
  ELSE LET clean == dedupeSkills(Head(cats).skills)
       IN (IF clean = <<>> THEN <<>> ELSE <<SkillLine(Head(cats).label, clean)>>)
            \o CategoriesToLines(Tail(cats))

buildSkillsLines(doc) ==
  Slice(Slice(CategoriesToLines(doc.skills), SKILLS_MAX_CATEGORIES), SKILLS_MAX_LINES)

SanitizeAll(ts) == NonEmpty([i \in 1..Len(ts) |-> sanitizeText(ts[i])])

buildPdfModel(doc) ==
  LET summaryText == sanitizeText(doc.summary)
      jobs == [i \in 1..Len(doc.experience) |->
                 Item("job", doc.experience[i].id, <<>>,
                      SanitizeAll(doc.experience[i].achievements), <<>>)]
      projects == [i \in 1..Len(doc.projects) |->
                     Item("projects", doc.projects[i].id, sanitizeText(doc.projects[i].name),
                          SanitizeAll(<<doc.projects[i].description, doc.projects[i].impact>>),
                          <<>>)]
      skillsLines == buildSkillsLines(doc)
      edu == buildEducationEntries(doc)
      certs == SanitizeAll(doc.certifications)
  IN [header |-> doc.personal,
      sections |->
           (IF summaryText # <<>>
              THEN <<Section("SUMMARY", <<Item("paragraph", 0, <<>>, <<summaryText>>, <<>>)>>)>>
              ELSE <<>>)
        \o (IF jobs # <<>> THEN <<Section("EXPERIENCE", jobs)>> ELSE <<>>)
        \o (IF projects # <<>> THEN <<Section("PROJECTS", projects)>> ELSE <<>>)
        \o (IF skillsLines # <<>>
              THEN <<Section("SKILLS", <<Item("skills", 0, <<>>, <<>>, skillsLines)>>)>>
              ELSE <<>>)
        \o (IF edu # <<>>
              THEN <<Section("EDUCATION",
                       [i \in 1..Len(edu) |-> Item("educationEntry", edu[i].id, <<>>, <<>>, <<>>)])>>
              ELSE <<>>)
        \o (IF certs # <<>>
              THEN <<Section("CERTIFICATIONS", <<Item("bullets", 0, <<>>, certs, <<>>)>>)>>
              ELSE <<>>)]

\* ---------------------------------------------------------------------
\* Adaptation logic: structural clamps and bullet compression
\* ---------------------------------------------------------------------
RECURSIVE FlatBullets(_)
\* extras.flatMap(p => p.project.bullets.flatMap(b => b.lines)).filter(Boolean)
FlatBullets(projects) ==
  IF projects = <<>> THEN <<>>
  ELSE NonEmpty(Head(projects).bullets) \o FlatBullets(Tail(projects))

enforceConstraints(model) ==
  LET exp == ItemsOf(model, "EXPERIENCE")
      m1 == MapSection(model, "EXPERIENCE",
              [i \in 1..Len(exp) |->
                 IF exp[i].kind # "job" THEN exp[i]
                 ELSE [exp[i] EXCEPT !.bullets =
                         mergeBulletsToCount(@, ROLE_BULLETS_MAX_TWO_PAGE)]])
      projects == SelectSeqBy(ItemsOf(m1, "PROJECTS"), "projects")
      kept == SubSeq(projects, 1, PROJECTS_KEPT)
      extras == SubSeq(projects, PROJECTS_KEPT + 1, Len(projects))
      last == kept[PROJECTS_KEPT]
      appended == last.bullets \o FlatBullets(extras)
  IN IF Len(projects) <= PROJECTS_KEPT THEN m1
     ELSE MapSection(m1, "PROJECTS",
            [kept EXCEPT ![PROJECTS_KEPT] =
               [last EXCEPT !.bullets = mergeBulletsToCount(appended, 2)]])

compressExperienceBullets(model, targetBulletsPerJob) ==
  LET exp == ItemsOf(model, "EXPERIENCE")
  IN MapSection(model, "EXPERIENCE",
       [i \in 1..Len(exp) |->
          IF exp[i].kind # "job" THEN exp[i]
          ELSE [exp[i] EXCEPT !.bullets = mergeBulletsToCount(@, targetBulletsPerJob)]])

shortenAllBullets(model, max) ==
  [model EXCEPT !.sections =
     [i \in 1..Len(model.sections) |->
        [model.sections[i] EXCEPT !.items =
           [j \in 1..Len(@) |->
              IF @[j].kind \in {"job", "projects", "bullets"}
                THEN [@[j] EXCEPT !.bullets =
                        [b \in 1..Len(@) |-> compressToWordBudget(@[b], max)]]
                ELSE @[j]]]]]

\* ---------------------------------------------------------------------
\* SKILLS contract
\* ---------------------------------------------------------------------
SkillChars(skills) == SumSeq([i \in 1..Len(skills) |-> skills[i].len])

\* line.length of "Label: a, b, c" (tight: "Label: a,b,c")
LineChars(line) ==
  line.label + 2 + SkillChars(line.skills)
    + (IF line.tight THEN 1 ELSE 2) * Max(0, Len(line.skills) - 1)

\* /^([^:]{2,32}):\s*(.*)$/ matches the line
LabelMatches(line) == line.label >= 2 /\ line.label <= 32

\* the skills of the first `keep` characters of the line; `ell` characters are
\* appended to what is left of the skill the cut falls in
RECURSIVE CutSkills(_, _, _, _, _, _)
CutSkills(skills, i, pos, sep, keep, ell) ==
  IF i > Len(skills) THEN <<>>
  ELSE LET start == pos + (IF i > 1 THEN sep ELSE 0)
           left == Max(0, keep - start) + ell
       IN IF start + skills[i].len <= keep
            THEN <<skills[i]>> \o CutSkills(skills, i + 1, start + skills[i].len, sep, keep, ell)
          ELSE IF left = 0 THEN <<>>
          ELSE << [skills[i] EXCEPT !.len = left] >>

CutLine(line, keep, ell) ==
  [line EXCEPT !.skills =
     CutSkills(@, 1, line.label + 2, IF line.tight THEN 1 ELSE 2, keep, ell)]

RECURSIVE DropRestToFit(_, _, _, _)
DropRestToFit(label, core, rest, maxChars) ==
  IF rest # <<>>
     /\ LineChars([label |-> label, skills |-> core \o rest, tight |-> TRUE]) > maxChars
    THEN DropRestToFit(label, core, SubSeq(rest, 1, Len(rest) - 1), maxChars)
    ELSE rest

fitSkillsLineToCharBudget(line, maxChars) ==
  LET t == [line EXCEPT !.tight = TRUE]
      core == Slice(t.skills, SKILLS_CORE)
      rest == DropRestToFit(t.label, core,
                SubSeq(t.skills, Len(core) + 1, Len(t.skills)), maxChars)
      out == [t EXCEPT !.skills = core \o rest]
      coreOnly == [t EXCEPT !.skills = core]
      final == IF LineChars(out) > maxChars THEN coreOnly ELSE out
  IN IF LineChars(line) <= maxChars THEN line
     ELSE IF LineChars(t) <= maxChars THEN t
     ELSE IF ~LabelMatches(t) THEN CutLine(t, maxChars, 0)
     ELSE IF LineChars(final) <= maxChars THEN final
     ELSE CutLine(final, maxChars, 0)

\* truncateToWidth(body font, line, CONTENT_WIDTH_PT)
TruncateLineToWidth(line) ==
  IF LineChars(line) * CHAR_W <= CONTENT_WIDTH_PT THEN line
  ELSE CutLine(line, (CONTENT_WIDTH_PT - 3 * PUNCT_W) \div CHAR_W, 3)

NormalizeSkillLine(line, maxPerCategory) ==
  IF ~LabelMatches(line) THEN line
  ELSE LET deduped == dedupeSkills(line.skills)
           core == Slice(deduped, SKILLS_CORE)
           nonCore == SubSeq(deduped, Len(core) + 1, Len(deduped))
       IN [label |-> line.label,
           skills |-> core \o Slice(nonCore, Max(0, maxPerCategory - Len(core))),
           tight |-> FALSE]

RECURSIVE DropLinesToHeight(_, _)
DropLinesToHeight(lines, maxHeight) ==
  IF Len(lines) > 0 /\ Len(lines) * BODY_LINE_HEIGHT > maxHeight
     /\ Max(1, Len(lines) - 1) < Len(lines)
    THEN DropLinesToHeight(Slice(lines, Max(1, Len(lines) - 1)), maxHeight)
    ELSE lines

enforceSkillsContracts(model, mode) ==
  LET maxHeight == IF mode = "one-page" THEN SKILLS_MAX_HEIGHT_ONE_PAGE_PT
                   ELSE SKILLS_MAX_HEIGHT_TWO_PAGE_PT
      maxPerCategory == IF mode = "one-page" THEN SKILLS_MAX_PER_CATEGORY_ONE_PAGE
                        ELSE SKILLS_MAX_PER_CATEGORY_TWO_PAGE
      found == SelectSeqBy(ItemsOf(model, "SKILLS"), "skills")
      lines0 == Slice(found[1].lines, SKILLS_MAX_LINES)
      Normalized(lines) ==
        [i \in 1..Len(lines) |->
           fitSkillsLineToCharBudget(NormalizeSkillLine(lines[i], maxPerCategory),
                                     SKILLS_MAX_CHARS_PER_LINE)]
      Truncated(lines) == [i \in 1..Len(lines) |-> TruncateLineToWidth(lines[i])]
  IN IF found = <<>> \/ lines0 = <<>> THEN model
     ELSE MapSection(model, "SKILLS",
            <<Item("skills", 0, <<>>, <<>>,
                   Truncated(DropLinesToHeight(Slice(Normalized(lines0), SKILLS_MAX_LINES),
                                               maxHeight)))>>)

\* ---------------------------------------------------------------------
\* SUMMARY contract
\* ---------------------------------------------------------------------
compressSummaryAdjectives(t) == DeleteClasses(t, {"f"})

\* "(A, B, C)" -> "(A/B/C)" and "Tech: A, B, C" -> "Tech: A/B/C": the rewrite
\* acts on comma lists only, and the texts enumerated have none
compactTechLists(t) == t

replaceSummaryPhrases(t) == ReplacePhrases(t)

compressSummaryText(t) ==
  replaceSummaryPhrases(compactTechLists(compressSummaryAdjectives(sanitizeText(t))))

SummaryFits(candidate) ==
  LET lines == wrapText(candidate, CONTENT_WIDTH_PT)
  IN Len(lines) <= SUMMARY_MAX_LINES /\ Len(lines) * BODY_LINE_HEIGHT <= SUMMARY_MAX_HEIGHT_PT

RECURSIVE SummaryLoop(_, _, _, _)
SummaryLoop(candidate, attempt, minWords, maxWords) ==
  IF attempt >= SUMMARY_ATTEMPTS \/ SummaryFits(candidate) THEN candidate
  ELSE LET c1 == replaceSummaryPhrases(compactTechLists(compressSummaryAdjectives(candidate)))
           nextMax == Max(minWords, Min(maxWords, countWords(c1) - 2))
           c2 == IF countWords(c1) > nextMax THEN clampWords(c1, nextMax) ELSE c1
       IN SummaryLoop(c2, attempt + 1, minWords, maxWords)

\* the attempts the summary loop makes before it stops; one pass of the loop body
\* is the loop entered at its last attempt
RECURSIVE SummaryLoopAttempts(_, _, _, _)
SummaryLoopAttempts(candidate, attempt, minWords, maxWords) ==
  IF attempt >= SUMMARY_ATTEMPTS \/ SummaryFits(candidate) THEN attempt
  ELSE SummaryLoopAttempts(SummaryLoop(candidate, SUMMARY_ATTEMPTS - 1, minWords, maxWords),
                           attempt + 1, minWords, maxWords)

SummaryMinWords(mode) == IF mode = "one-page" THEN 40 ELSE 45
SummaryMaxWords(mode) == IF mode = "one-page" THEN 55 ELSE 65

clampSummaryStrict(model, mode) ==
  LET found == SelectSeqBy(ItemsOf(model, "SUMMARY"), "paragraph")
      text == sanitizeText(found[1].bullets[1])
      Clamped(t1) == IF countWords(t1) > SummaryMaxWords(mode)
                       THEN clampWords(t1, SummaryMaxWords(mode)) ELSE t1
  IN IF found = <<>> THEN model
     ELSE IF text = <<>> THEN model
     ELSE MapSection(model, "SUMMARY",
            <<Item("paragraph", 0, <<>>,
                   <<SummaryLoop(Clamped(compressSummaryText(text)), 0,
                                 SummaryMinWords(mode), SummaryMaxWords(mode))>>,
                   <<>>)>>)

\* ---------------------------------------------------------------------
\* EXPERIENCE contract
\* ---------------------------------------------------------------------
CompressBullets(bullets, max) ==
  [i \in 1..Len(bullets) |-> compressBulletToWordRange(bullets[i], max)]

RECURSIVE ExpandBullets(_, _, _)
ExpandBullets(bullets, i, expanded) ==
  IF i > Len(bullets) THEN expanded
  ELSE LET Continue(e2) ==
             IF Len(e2) >= ROLE_BULLETS_MIN THEN e2 ELSE ExpandBullets(bullets, i + 1, e2)
       IN Continue(expanded \o splitBulletIntoTwo(bullets[i]))

RECURSIVE RoleLoop(_, _, _)
RoleLoop(job, attempt, maxRoleHeight) ==
  IF attempt >= ROLE_ATTEMPTS \/ measureRoleHeight(job) <= maxRoleHeight THEN job
  ELSE IF Len(job.bullets) > ROLE_BULLETS_MIN
    THEN RoleLoop([job EXCEPT !.bullets = mergeBulletsToCount(@, ROLE_BULLETS_MIN)],
                  attempt + 1, maxRoleHeight)
  ELSE RoleLoop([job EXCEPT !.bullets =
                   CompressBullets(@, Max(BULLET_WORDS_MIN, BULLET_WORDS_MAX - 2))],
                attempt + 1, maxRoleHeight)

\* the attempts the per-role loop makes before it stops; one pass of the loop body
\* is the loop entered at its last attempt
RECURSIVE RoleLoopAttempts(_, _, _)
RoleLoopAttempts(job, attempt, maxRoleHeight) ==
  IF attempt >= ROLE_ATTEMPTS \/ measureRoleHeight(job) <= maxRoleHeight THEN attempt
  ELSE RoleLoopAttempts(RoleLoop(job, ROLE_ATTEMPTS - 1, maxRoleHeight), attempt + 1,
                        maxRoleHeight)

EnforceRole(job, mode) ==
  LET maxRoleHeight == IF mode = "one-page" THEN ROLE_MAX_HEIGHT_ONE_PAGE_PT
                       ELSE ROLE_MAX_HEIGHT_TWO_PAGE_PT
      targetMaxBullets == IF mode = "one-page" THEN ROLE_BULLETS_MAX_ONE_PAGE
                          ELSE ROLE_BULLETS_MAX_TWO_PAGE
      Merged(bullets) ==
        IF Len(bullets) > targetMaxBullets
          THEN mergeBulletsToCount(bullets, targetMaxBullets) ELSE bullets
      Expanded(bullets, expanded) ==
        IF Len(bullets) < ROLE_BULLETS_MIN
          THEN (IF expanded # <<>> THEN Slice(expanded, ROLE_BULLETS_MIN) ELSE bullets)
          ELSE bullets
      Split(bullets) == Expanded(bullets, ExpandBullets(bullets, 1, <<>>))
  IN RoleLoop([job EXCEPT !.bullets =
                 CompressBullets(Slice(Split(Merged(SanitizeAll(job.bullets))),
                                       Max(1, targetMaxBullets)),
                                 BULLET_WORDS_MAX)],
              0, maxRoleHeight)

enforceExperienceContracts(model, mode) ==
  LET exp == ItemsOf(model, "EXPERIENCE")
  IN MapSection(model, "EXPERIENCE",
       [i \in 1..Len(exp) |-> IF exp[i].kind # "job" THEN exp[i] ELSE EnforceRole(exp[i], mode)])

\* ---------------------------------------------------------------------
\* PROJECTS contract
\* ---------------------------------------------------------------------
\* the measured width of a project title (bold, 12pt)
TitleWidth(t) == (TextWidth(t) * 12) \div 11

RECURSIVE TruncFrom(_, _, _, _)
TruncFrom(t, i, used, budget) ==
  IF i > Len(t) THEN <<>>
  ELSE LET gap == IF i > 1 THEN (SPACE_W * 12) \div 11 ELSE 0
           need == gap + (t[i].w * 12) \div 11
           chars == (budget - used - gap) \div ((CHAR_W * 12) \div 11)
       IN IF used + need <= budget THEN <<t[i]>> \o TruncFrom(t, i + 1, used + need, budget)
          ELSE IF chars >= 1
            THEN << [t[i] EXCEPT !.cls = "k", !.end = <<>>, !.w = chars * CHAR_W] >>
          ELSE <<>>

Ellipsis(t) ==
  IF t = <<>> THEN << [src |-> 0, cls |-> "z", end |-> <<".", ".", ".">>, w |-> 3 * PUNCT_W] >>
  ELSE [t EXCEPT ![Len(t)] = AppendPunct(AppendPunct(AppendPunct(@, "."), "."), ".")]

\* truncateToWidth(project title font, text, CONTENT_WIDTH_PT)
TruncateTitleToWidth(t) ==
  IF t = <<>> THEN <<>>
  ELSE IF TitleWidth(t) <= CONTENT_WIDTH_PT THEN t
  ELSE Ellipsis(TruncFrom(t, 1, 0, CONTENT_WIDTH_PT - ((3 * PUNCT_W * 12) \div 11)))

DefaultTitle == << Word(0, "n") >>

shortenProjectTitle(title, aggressive) ==
  LET t0 == sanitizeText(title)
      t == RemoveParentheticals(t0)
  IN IF t0 = <<>> THEN DefaultTitle
     ELSE IF TitleWidth(t) <= CONTENT_WIDTH_PT THEN t
     ELSE IF ~aggressive THEN TruncateTitleToWidth(t)
     ELSE TruncateTitleToWidth(Slice(t, 8))

\* "Delivered project outcomes and measurable impact using ATS-safe phrasing."
PlaceholderBullet ==
  << Word(0, "l"), Word(0, "n"), Word(0, "l"), Word(0, "a"), Word(0, "l"), Word(0, "n"),
     Word(0, "g"), Word(0, "l"), AppendPunct(Word(0, "l"), ".") >>

RECURSIVE ProjectLoop(_, _, _)
ProjectLoop(project, attempt, maxHeight) ==
  IF attempt >= PROJECT_ATTEMPTS \/ measureProjectHeight(project) <= maxHeight THEN project
  ELSE ProjectLoop(
         [project EXCEPT
            !.bullets = [i \in 1..Len(@) |->
                           removeFillerAdjectives(
                             compressProjectBulletToWordRange(@[i],
                               Max(PROJECT_BULLET_WORDS_MIN, PROJECT_BULLET_WORDS_MAX - 2)))],
            !.title = shortenProjectTitle(@, TRUE)],
         attempt + 1, maxHeight)

\* the attempts the per-project loop makes before it stops; one pass of the loop body
\* is the loop entered at its last attempt
RECURSIVE ProjectLoopAttempts(_, _, _)
ProjectLoopAttempts(project, attempt, maxHeight) ==
  IF attempt >= PROJECT_ATTEMPTS \/ measureProjectHeight(project) <= maxHeight THEN attempt
  ELSE ProjectLoopAttempts(ProjectLoop(project, PROJECT_ATTEMPTS - 1, maxHeight), attempt + 1,
                           maxHeight)

EnforceProject(p, mode) ==
  LET maxHeight == IF mode = "one-page" THEN PROJECT_MAX_HEIGHT_ONE_PAGE_PT
                   ELSE PROJECT_MAX_HEIGHT_TWO_PAGE_PT
      Title(t) == shortenProjectTitle(IF t = <<>> THEN DefaultTitle ELSE t, FALSE)
      Stripped(bullets) ==
        [i \in 1..Len(bullets) |-> stripProjectBulletDisallowedPatterns(bullets[i])]
      OrPlaceholder(bullets) == IF bullets = <<>> THEN <<PlaceholderBullet>> ELSE bullets
      Compressed(bullets) ==
        [i \in 1..Len(bullets) |->
           compressProjectBulletToWordRange(bullets[i], PROJECT_BULLET_WORDS_MAX)]
  IN ProjectLoop(
       [p EXCEPT
          !.title = Title(sanitizeText(p.title)),
          !.bullets =
            Compressed(OrPlaceholder(
              Slice(splitFeaturesAndTechAcrossBullets(Stripped(SanitizeAll(p.bullets))),
                    PROJECT_BULLETS_MAX)))],
       0, maxHeight)

enforceProjectsContracts(model, mode) ==
  LET maxProjects == IF mode = "one-page" THEN PROJECTS_MAX_ONE_PAGE ELSE PROJECTS_MAX_TWO_PAGE
      projects == SelectSeqBy(ItemsOf(model, "PROJECTS"), "projects")
      clamped == Slice(projects, maxProjects)
  IN IF projects = <<>> THEN model
     ELSE MapSection(model, "PROJECTS",
            [i \in 1..Len(clamped) |-> EnforceProject(clamped[i], mode)])

\* ---------------------------------------------------------------------
\* Header layout.  A contact item is [id |-> field, w |-> width at 10pt];
\* the title line is not modelled (it is always a single line).
\* ---------------------------------------------------------------------
CONTACT_SEP_W == 816
REBALANCE_ROUNDS == 6

\* items.filter(Boolean): the contact fields that are present
RECURSIVE Present(_)
Present(items) ==
  IF items = <<>> THEN <<>>
  ELSE (IF Head(items).w > 0 THEN <<Head(items)>> ELSE <<>>) \o Present(Tail(items))

ContactWidth(parts) ==
  IF parts = <<>> THEN 0
  ELSE SumSeq([i \in 1..Len(parts) |-> parts[i].w]) + (Len(parts) - 1) * CONTACT_SEP_W

RECURSIVE Rebalance(_, _, _)
Rebalance(l3, l4, i) ==
  IF i >= REBALANCE_ROUNDS THEN <<l3, l4>>
  ELSE IF Len(l3) > 1 /\ ContactWidth(l3) > HEADER_MAX_WIDTH_PT /\ Len(l4) < 3
    THEN Rebalance(SubSeq(l3, 1, Len(l3) - 1), <<l3[Len(l3)]>> \o l4, i + 1)
  ELSE IF Len(l4) > 1 /\ ContactWidth(l4) > HEADER_MAX_WIDTH_PT /\ Len(l3) < 3
    THEN Rebalance(Append(l3, l4[Len(l4)]), SubSeq(l4, 1, Len(l4) - 1), i + 1)
  ELSE <<l3, l4>>

packContactLines(preferredLine3, preferredLine4) ==
  LET line(parts) ==
        IF parts = <<>> THEN <<>>
        ELSE << [items |-> parts, tight |-> ContactWidth(parts) > HEADER_MAX_WIDTH_PT] >>
      Lines(r) == line(r[1]) \o line(r[2])
  IN Lines(Rebalance(Slice(preferredLine3, 3), Slice(preferredLine4, 3), 0))

measureHeaderLayout(layout) ==
  HEADER_NAME_LINE_HEIGHT
    + (IF layout.titleFontSize = HEADER_TITLE_FONT_SIZE
         THEN HEADER_TITLE_LINE_HEIGHT ELSE HEADER_TITLE_LINE_HEIGHT - 50)
    + HEADER_GAP_TITLE_TO_CONTACT
    + Max(0, Min(2, Len(layout.contactLines))) * HEADER_CONTACT_LINE_HEIGHT

layoutHeader(header) ==
  LET Fitted(layout) ==
        IF measureHeaderLayout(layout) > HEADER_MAX_HEIGHT_PT
          THEN [layout EXCEPT !.titleFontSize = HEADER_TITLE_FONT_SIZE_MIN]
          ELSE layout
  IN Fitted([titleFontSize |-> HEADER_TITLE_FONT_SIZE,
             contactLines |->
               packContactLines(Present(<<header.email, header.phone, header.location>>),
                                Present(<<header.linkedin, header.github, header.portfolio>>))])

\* ---------------------------------------------------------------------
\* Measurement of items and section chunks
\* ---------------------------------------------------------------------
\* measureItem(prepared item): the height of the item once its texts are wrapped
ItemHeight(it) ==
  CASE it.kind = "paragraph" ->
         Len(wrapText(it.bullets[1], CONTENT_WIDTH_PT)) * BODY_LINE_HEIGHT
    [] it.kind = "skills" -> Len(Slice(it.lines, SKILLS_MAX_LINES)) * BODY_LINE_HEIGHT
    [] it.kind = "educationEntry" -> EDUCATION_ENTRY_HEIGHT_PT
    [] it.kind = "job" ->
         ROLE_HEADER_HEIGHT_PT + ROLE_GAP_AFTER_HEADER_PT + measureBullets(WrapBullets(it.bullets))
    [] it.kind = "projects" ->
         PROJECT_TITLE_LINE_HEIGHT + PROJECT_TITLE_TO_BULLETS_GAP_PT
           + measureBullets(Slice(WrapBullets(it.bullets), PROJECT_BULLETS_MAX))
    [] it.kind = "bullets" -> measureBullets(WrapBullets(it.bullets))
    [] OTHER -> 0

\* prepareSection(items).itemHeights
ItemHeights(items) == [i \in 1..Len(items) |-> ItemHeight(items[i])]

Chunk(items, height) == [items |-> items, height |-> height]

RECURSIVE ChunkFrom(_, _, _, _, _, _)
ChunkFrom(items, heights, i, currentItems, currentHeight, overhead) ==
  IF i > Len(items)
    THEN (IF currentItems # <<>> THEN <<Chunk(currentItems, currentHeight)>> ELSE <<>>)
  ELSE LET h == heights[i]
           candidate == currentHeight + (IF currentItems # <<>> THEN GAP_BETWEEN_ITEMS ELSE 0) + h
       IN IF currentItems # <<>> /\ candidate > CONTENT_HEIGHT_PT
            THEN <<Chunk(currentItems, currentHeight)>>
                   \o ChunkFrom(items, heights, i + 1, <<items[i]>>, overhead + h, overhead)
          ELSE ChunkFrom(items, heights, i + 1, Append(currentItems, items[i]), candidate, overhead)

chunkSectionItems(items, itemHeights, headingHeight, gapHeadingToContent) ==
  ChunkFrom(items, itemHeights, 1, <<>>, headingHeight + gapHeadingToContent,
            headingHeight + gapHeadingToContent)

\* a layout block; items: the ids of the items it holds
Block(kind, title, height, items) ==
  [kind |-> kind, title |-> title, height |-> height, items |-> items]

HeaderBlock(model) == Block("header", "HEADER", measureHeaderLayout(layoutHeader(model.header)), <<>>)

\* the blocks of one section: its chunks, heading and gap repeated per chunk
SectionBlocks(title, items, gapHeadingToContentDefault) ==
  LET Blocks(chunks) ==
        [c \in 1..Len(chunks) |->
           Block("section", title, chunks[c].height,
                 [k \in 1..Len(chunks[c].items) |-> chunks[c].items[k].id])]
  IN Blocks(chunkSectionItems(items, ItemHeights(items), HEADING_LINE_HEIGHT,
                              IF title = "PROJECTS" THEN PROJECTS_GAP_AFTER_HEADER_PT
                              ELSE gapHeadingToContentDefault))

\* a page under construction, and a block placed on it
Page(blocks, usedHeight) == [blocks |-> blocks, usedHeight |-> usedHeight]

Place(page, block, gapSection) ==
  LET extraGap == IF page.blocks # <<>> THEN gapSection ELSE 0
  IN Page(Append(page.blocks, [block |-> block, yTop |-> MARGIN_PT + page.usedHeight + extraGap]),
          page.usedHeight + block.height + extraGap)

\* ---------------------------------------------------------------------
\* Greedy paginator
\* ---------------------------------------------------------------------
RECURSIVE AllSectionBlocks(_, _)
AllSectionBlocks(sections, gapHeadingToContentDefault) ==
  IF sections = <<>> THEN <<>>
  ELSE SectionBlocks(Head(sections).title, Head(sections).items, gapHeadingToContentDefault)
         \o AllSectionBlocks(Tail(sections), gapHeadingToContentDefault)

RECURSIVE PackFrom(_, _, _, _, _, _)
PackFrom(blocks, i, pages, pageBlocks, used, gapSection) ==
  IF i > Len(blocks)
    THEN (IF pageBlocks # <<>> THEN Append(pages, Page(pageBlocks, used)) ELSE pages)
  ELSE LET b == blocks[i]
           isFirstBlock == pages = <<>> /\ pageBlocks = <<>>
           extraGap == IF ~isFirstBlock THEN gapSection ELSE 0
           needed == b.height + extraGap
           flush == used + needed > CONTENT_HEIGHT_PT /\ pageBlocks # <<>>
           pages2 == IF flush THEN Append(pages, Page(pageBlocks, used)) ELSE pages
           pageBlocks2 == IF flush THEN <<>> ELSE pageBlocks
           used2 == IF flush THEN 0 ELSE used
           yTop == MARGIN_PT + used2 + (IF pageBlocks2 # <<>> THEN extraGap ELSE 0)
       IN IF b.kind = "header" /\ Len(pages) > 0
            THEN PackFrom(blocks, i + 1, pages, pageBlocks, used, gapSection)
          ELSE PackFrom(blocks, i + 1, pages2,
                        Append(pageBlocks2, [block |-> b, yTop |-> yTop]),
                        used2 + needed, gapSection)

\* not the code's paginator: no page break, every block on the first page
PaginateOnOnePage(model, tight) ==
  LET OnePage(blocks) ==
        << Page([i \in 1..Len(blocks) |-> [block |-> blocks[i], yTop |-> MARGIN_PT]],
                SumSeq([i \in 1..Len(blocks) |-> blocks[i].height])
                  + (Len(blocks) - 1) * GAP_BETWEEN_SECTIONS) >>
  IN OnePage(<<HeaderBlock(model)>> \o AllSectionBlocks(model.sections, GAP_HEADING_TO_CONTENT))

paginate(model, tight) ==
  LET gapSection == Max(800, GAP_BETWEEN_SECTIONS - (IF tight THEN 200 ELSE 0))
      gapHeadingToContentDefault == Max(600, GAP_HEADING_TO_CONTENT - (IF tight THEN 200 ELSE 0))
  IN PackFrom(<<HeaderBlock(model)>> \o AllSectionBlocks(model.sections, gapHeadingToContentDefault),
              1, <<>>, <<>>, 0, gapSection)

\* ---------------------------------------------------------------------
\* Strict 2-page pagination policy
\* ---------------------------------------------------------------------
\* one block per job, so that a role never splits
ExpJobBlocks(model) ==
  LET JobBlocks(expItems, heights) ==
        [i \in 1..Len(expItems) |->
           Block("section", "EXPERIENCE",
                 HEADING_LINE_HEIGHT + GAP_HEADING_TO_CONTENT + heights[i], <<expItems[i].id>>)]
  IN JobBlocks(SelectSeqBy(ItemsOf(model, "EXPERIENCE"), "job"),
               ItemHeights(SelectSeqBy(ItemsOf(model, "EXPERIENCE"), "job")))

SummaryChunks(model) ==
  IF HasSection(model, "SUMMARY")
    THEN SectionBlocks("SUMMARY", ItemsOf(model, "SUMMARY"), GAP_HEADING_TO_CONTENT)
    ELSE <<>>

RECURSIVE OtherBlocks(_, _)
OtherBlocks(model, titles) ==
  IF titles = <<>> THEN <<>>
  ELSE (IF HasSection(model, Head(titles))
          THEN SectionBlocks(Head(titles), ItemsOf(model, Head(titles)), GAP_HEADING_TO_CONTENT)
          ELSE <<>>)
         \o OtherBlocks(model, Tail(titles))

\* Summary always on page 1: every chunk up to and including the first that
\* does not fit
RECURSIVE PlaceSummary(_, _, _)
PlaceSummary(page, chunks, i) ==
  IF i > Len(chunks) THEN page
  ELSE IF page.usedHeight + GAP_BETWEEN_SECTIONS + chunks[i].height <= CONTENT_HEIGHT_PT
    THEN PlaceSummary(Place(page, chunks[i], GAP_BETWEEN_SECTIONS), chunks, i + 1)
  ELSE Place(page, chunks[i], GAP_BETWEEN_SECTIONS)

\* for (const jb of expJobBlocks): place while fewer than 2 are placed and the
\* block fits (the first placed one need not fit); returns page 1 and placedJobs
RECURSIVE PlaceJobs(_, _, _, _)
PlaceJobs(page, jobBlocks, i, placedJobs) ==
  IF i > Len(jobBlocks) \/ placedJobs >= 2 THEN [page |-> page, placedJobs |-> placedJobs]
  ELSE IF page.usedHeight + GAP_BETWEEN_SECTIONS + jobBlocks[i].height <= CONTENT_HEIGHT_PT
          \/ placedJobs = 0
    THEN PlaceJobs(Place(page, jobBlocks[i], GAP_BETWEEN_SECTIONS), jobBlocks, i + 1,
                   placedJobs + 1)
  ELSE PlaceJobs(page, jobBlocks, i + 1, placedJobs)

RECURSIVE PlaceAll(_, _, _)
PlaceAll(page, blocks, i) ==
  IF i > Len(blocks) THEN page
  ELSE PlaceAll(Place(page, blocks[i], GAP_BETWEEN_SECTIONS), blocks, i + 1)

\* the allocation of the strict policy, before the overflow test
TwoPageAllocation(model) ==
  LET Allocate(header, summaryChunks, expJobBlocks, others) ==
        LET placed == PlaceJobs(PlaceSummary(Place(Page(<<>>, 0), header, GAP_BETWEEN_SECTIONS),
                                             summaryChunks, 1),
                                expJobBlocks, 1, 0)
        IN << placed.page,
              PlaceAll(PlaceAll(Page(<<>>, 0), expJobBlocks, placed.placedJobs + 1), others, 1) >>
  IN Allocate(HeaderBlock(model), SummaryChunks(model), ExpJobBlocks(model),
              OtherBlocks(model, <<"PROJECTS", "SKILLS", "EDUCATION", "CERTIFICATIONS">>))

\* not the code's test: the overflow of page 2 is not looked at
OverflowsPage1Only(page1, page2) == page1.usedHeight > CONTENT_HEIGHT_PT

\* the overflow test on the two pages of the strict allocation
Overflows(page1, page2) ==
  page2.usedHeight > CONTENT_HEIGHT_PT \/ page1.usedHeight > CONTENT_HEIGHT_PT

\* TRUE when the strict allocation is discarded for the greedy paginator
TwoPageFallsBack(model) ==
  LET Discarded(pages) == Overflows(pages[1], pages[2])
  IN Discarded(TwoPageAllocation(model))

paginateTwoPages(model) ==
  LET Result(pages) ==
        IF Overflows(pages[1], pages[2]) THEN paginate(model, FALSE) ELSE pages
  IN Result(TwoPageAllocation(model))

\* ---------------------------------------------------------------------
\* EDUCATION contract
\* ---------------------------------------------------------------------
RECURSIVE CountJobsOnPage1(_, _, _, _)
CountJobsOnPage1(heights, i, placedJobs, used1) ==
  IF i > Len(heights) \/ placedJobs >= 2 THEN placedJobs
  ELSE LET needed == GAP_BETWEEN_SECTIONS + HEADING_LINE_HEIGHT + GAP_HEADING_TO_CONTENT + heights[i]
       IN IF used1 + needed <= CONTENT_HEIGHT_PT \/ placedJobs = 0
            THEN CountJobsOnPage1(heights, i + 1, placedJobs + 1, used1 + needed)
          ELSE CountJobsOnPage1(heights, i + 1, placedJobs, used1)

RECURSIVE AddBlocks(_, _, _)
\* used2 += (used2 ? gapSection : 0) + height, over the blocks from index i
AddBlocks(used, heights, i) ==
  IF i > Len(heights) THEN used
  ELSE AddBlocks(used + (IF used # 0 THEN GAP_BETWEEN_SECTIONS ELSE 0) + heights[i], heights, i + 1)

BlockHeights(blocks) == [i \in 1..Len(blocks) |-> blocks[i].height]

\* used1: the header and the summary chunks, each chunk after a section gap
EducationFitUsed1(model) ==
  LET Used1(headerHeight, summary) ==
        headerHeight + SumSeq([i \in 1..Len(summary) |-> GAP_BETWEEN_SECTIONS + summary[i]])
  IN Used1(measureHeaderLayout(layoutHeader(model.header)), BlockHeights(SummaryChunks(model)))

\* placedJobs: the roles the fit test takes to be on page 1
EducationFitPlacedJobs(model) ==
  CountJobsOnPage1(ItemHeights(SelectSeqBy(ItemsOf(model, "EXPERIENCE"), "job")), 1, 0,
                   EducationFitUsed1(model))

\* used2: page 2 up to, and not including, EDUCATION
EducationFitUsed2(model) ==
  LET Used2(expHeights, placedJobs, others) ==
        AddBlocks(
          AddBlocks(0,
                    [i \in 1..Len(expHeights) |->
                       HEADING_LINE_HEIGHT + GAP_HEADING_TO_CONTENT + expHeights[i]],
                    placedJobs + 1),
          others, 1)
  IN Used2(ItemHeights(SelectSeqBy(ItemsOf(model, "EXPERIENCE"), "job")),
           EducationFitPlacedJobs(model),
           BlockHeights(OtherBlocks(model, <<"PROJECTS", "SKILLS">>)))

\* not the fit test: two entries are always taken to fit
canEducationFitAlways(model, entriesCount) == TRUE

canEducationFitOnPage2(model, entriesCount) ==
  LET Remaining(used2) ==
        CONTENT_HEIGHT_PT - used2 - (IF used2 # 0 THEN GAP_BETWEEN_SECTIONS ELSE 0)
      eduItems == Slice(SelectSeqBy(ItemsOf(model, "EDUCATION"), "educationEntry"), entriesCount)
      eduContentH == Len(eduItems) * EDUCATION_ENTRY_HEIGHT_PT
                       + (IF Len(eduItems) > 1 THEN GAP_BETWEEN_ITEMS ELSE 0)
      required == HEADING_LINE_HEIGHT + GAP_HEADING_TO_CONTENT + eduContentH
  IN IF eduItems = <<>> THEN TRUE
     ELSE IF Len(eduItems) = 2 /\ eduContentH > EDUCATION_TWO_ENTRIES_MAX_HEIGHT_PT THEN FALSE
     ELSE required <= Remaining(EducationFitUsed2(model))

enforceEducationContracts(model, mode) ==
  LET maxEntries == IF mode = "one-page" THEN EDUCATION_MAX_ENTRIES_ONE_PAGE
                    ELSE EDUCATION_MAX_ENTRIES_TWO_PAGE
      entries == SelectSeqBy(ItemsOf(model, "EDUCATION"), "educationEntry")
      out == IF entries = <<>> THEN model
             ELSE MapSection(model, "EDUCATION", Slice(entries, maxEntries))
      kept == SelectSeqBy(ItemsOf(out, "EDUCATION"), "educationEntry")
  IN IF mode = "two-page" /\ Len(kept) >= 2 /\ ~canEducationFitOnPage2(out, 2)
       THEN MapSection(out, "EDUCATION", Slice(kept, 1))
       ELSE out

\* the value of the singleton set S
Only(S) == CHOOSE x \in S : TRUE

\* out = model; out = clampSummaryStrict(out); ...; out = enforceEducationContracts(out):
\* each assignment is evaluated before the next one starts
enforceSectionContracts(model, mode) ==
  Only({ enforceEducationContracts(out4, mode) :
           out4 \in { enforceSkillsContracts(out3, mode) :
             out3 \in { enforceProjectsContracts(out2, mode) :
               out2 \in { enforceExperienceContracts(out1, mode) :
                 out1 \in { clampSummaryStrict(model, mode) } } } } })

\* ---------------------------------------------------------------------
\* Public API: the requested mode of each entry point, and the shared
\* build -> adapt -> paginate pipeline.  options is <<>> when no
\* requestedPageCount is passed, and <<n>> otherwise.
\* ---------------------------------------------------------------------
\* not the code's rule: every page count from 2 up read as two-page
ModeOfPageCountTwoOrMore(requestedPageCount) ==
  IF requestedPageCount = 1 THEN "one-page"
  ELSE IF requestedPageCount >= 2 THEN "two-page"
  ELSE "multi-page"

ModeOfPageCount(requestedPageCount) ==
  IF requestedPageCount = 1 THEN "one-page"
  ELSE IF requestedPageCount = 2 THEN "two-page"
  ELSE "multi-page"

GenRequestedMode(options) == ModeOfPageCount(IF options = <<>> THEN 1 ELSE options[1])

\* not the code's default: no requestedPageCount read as two pages
RequestedModeDefaultTwo(options) == ModeOfPageCount(IF options = <<>> THEN 2 ELSE options[1])

AssessRequestedMode(options) == ModeOfPageCount(IF options = <<>> THEN 1 ELSE options[1])

\* the compression steps of adaptToFit, by name, in the order they are applied
\* not the code's list: the one-page steps without the summary clamp
StepsWithoutSummaryClamp ==
  << "enforceExperienceContracts", "shortenAllBullets", "enforceSkillsContracts" >>

\* not the code's list: the two-page steps with one more bullet shortening
TwoPageStepsAndOneMore ==
  << "compressExperienceBullets", "shortenAllBullets", "enforceSkillsContracts",
     "clampSummaryStrict", "enforceExperienceContracts", "shortenAllBullets" >>

OnePageSteps ==
  << "enforceExperienceContracts", "shortenAllBullets", "enforceSkillsContracts",
     "clampSummaryStrict" >>

TwoPageSteps ==
  << "compressExperienceBullets", "shortenAllBullets", "enforceSkillsContracts",
     "clampSummaryStrict", "enforceExperienceContracts" >>

StepsOf(mode) == IF mode = "two-page" THEN TwoPageSteps ELSE OnePageSteps

ApplyStep(name, m, mode) ==
  CASE name = "compressExperienceBullets" -> compressExperienceBullets(m, 3)
    [] name = "shortenAllBullets" -> shortenAllBullets(m, 20)
    [] name = "enforceSkillsContracts" -> enforceSkillsContracts(m, mode)
    [] name = "clampSummaryStrict" -> clampSummaryStrict(m, mode)
    [] name = "enforceExperienceContracts" -> enforceExperienceContracts(m, mode)

\* the fit test of the step loops
FitsLoose(m, mode) ==
  LET OnePage(ps) == Len(ps) = 1 /\ ps[1].usedHeight <= CONTENT_HEIGHT_PT
  IN IF mode = "two-page" THEN Len(paginateTwoPages(m)) <= 2
     ELSE OnePage(paginate(m, FALSE))

\* the last fit test of the one-page path
FitsTight(m) ==
  LET OnePage(pagesTight) ==
        Len(pagesTight) = 1 /\ pagesTight[1].usedHeight <= CONTENT_HEIGHT_PT
  IN OnePage(paginate(m, TRUE))

\* layoutForPdf's pagination of the adapted model
MeasuredPages(m, mode) == IF mode = "two-page" THEN paginateTwoPages(m) ELSE paginate(m, FALSE)

\* collectLayoutIssues: the issue codes raised
collectLayoutIssues(m, requestedMode, mode, ps) ==
  LET strict == IF requestedMode = "two-page" THEN "two-page" ELSE "one-page"
      maxRoleHeight == IF strict = "two-page" THEN ROLE_MAX_HEIGHT_TWO_PAGE_PT
                       ELSE ROLE_MAX_HEIGHT_ONE_PAGE_PT
      maxProjectHeight == IF strict = "two-page" THEN PROJECT_MAX_HEIGHT_TWO_PAGE_PT
                          ELSE PROJECT_MAX_HEIGHT_ONE_PAGE_PT
      maxSkillsHeight == IF strict = "two-page" THEN SKILLS_MAX_HEIGHT_TWO_PAGE_PT
                         ELSE SKILLS_MAX_HEIGHT_ONE_PAGE_PT
      maxEducationEntries == IF strict = "two-page" THEN EDUCATION_MAX_ENTRIES_TWO_PAGE
                             ELSE EDUCATION_MAX_ENTRIES_ONE_PAGE
      para == SelectSeqBy(ItemsOf(m, "SUMMARY"), "paragraph")
      paraLines == Len(wrapText(para[1].bullets[1], CONTENT_WIDTH_PT))
      jobs == SelectSeqBy(ItemsOf(m, "EXPERIENCE"), "job")
      ps2 == SelectSeqBy(ItemsOf(m, "PROJECTS"), "projects")
      skills == SelectSeqBy(ItemsOf(m, "SKILLS"), "skills")
      entries == SelectSeqBy(ItemsOf(m, "EDUCATION"), "educationEntry")
  IN   (IF requestedMode = "one-page" /\ (mode # "one-page" \/ Len(ps) > 1)
          THEN {"MODE_OVERFLOW"} ELSE {})
    \cup (IF requestedMode = "two-page" /\ (mode # "two-page" \/ Len(ps) > 2)
          THEN {"MODE_OVERFLOW"} ELSE {})
    \cup (IF \E k \in 1..Len(ps) : ps[k].usedHeight > CONTENT_HEIGHT_PT + 50
          THEN {"PAGE_OVERFLOW"} ELSE {})
    \cup (IF para # <<>> /\ (paraLines > SUMMARY_MAX_LINES
                              \/ paraLines * BODY_LINE_HEIGHT > SUMMARY_MAX_HEIGHT_PT + 50)
          THEN {"SUMMARY_CONTRACT"} ELSE {})
    \cup (IF \E k \in 1..Len(jobs) : measureRoleHeight(jobs[k]) > maxRoleHeight + 50
          THEN {"EXPERIENCE_CONTRACT"} ELSE {})
    \cup (IF \E k \in 1..Len(ps2) :
               \/ measureProjectHeight(ps2[k]) > maxProjectHeight + 50
               \/ TitleWidth(ps2[k].title) > CONTENT_WIDTH_PT + 50
          THEN {"PROJECTS_CONTRACT"} ELSE {})
    \cup (IF skills # <<>>
             /\ \/ Len(skills[1].lines) > SKILLS_MAX_LINES
                \/ \E k \in 1..Len(skills[1].lines) :
                     LineChars(skills[1].lines[k]) > SKILLS_MAX_CHARS_PER_LINE
                \/ Len(skills[1].lines) * BODY_LINE_HEIGHT > maxSkillsHeight + 50
          THEN {"SKILLS_CONTRACT"} ELSE {})
    \cup (IF \/ Len(entries) > maxEducationEntries
             \/ (Len(entries) = 2
                 /\ 2 * EDUCATION_ENTRY_HEIGHT_PT + GAP_BETWEEN_ITEMS
                      > EDUCATION_TWO_ENTRIES_MAX_HEIGHT_PT + 50)
          THEN {"EDUCATION_CONTRACT"} ELSE {})

\* ---------------------------------------------------------------------
\* The pipeline as functions: what one call computes between two awaits
\* ---------------------------------------------------------------------
\* the step loop of adaptToFit from step i on, and what follows it
RECURSIVE AdaptFrom(_, _, _)
AdaptFrom(m, mode, i) ==
  IF i <= Len(StepsOf(mode))
    THEN Only({ IF FitsLoose(m2, mode) THEN [model |-> m2, modeUsed |-> mode]
                ELSE AdaptFrom(m2, mode, i + 1) :
                m2 \in {enforceSectionContracts(ApplyStep(StepsOf(mode)[i], m, mode), mode)} })
  ELSE IF mode = "two-page" THEN [model |-> m, modeUsed |-> "multi-page"]
  ELSE Only({ [model |-> m2, modeUsed |-> IF FitsTight(m2) THEN "one-page" ELSE "multi-page"] :
              m2 \in {enforceSectionContracts(enforceConstraints(m), "one-page")} })

adaptToFit(base, requestedMode) ==
  IF requestedMode = "multi-page"
    THEN [model |-> enforceConstraints(base), modeUsed |-> "multi-page"]
  ELSE Only({ IF requestedMode = "two-page" /\ FitsLoose(m, "two-page")
                THEN [model |-> m, modeUsed |-> "two-page"]
                ELSE AdaptFrom(m, requestedMode, 1) :
              m \in {enforceSectionContracts(enforceConstraints(base), requestedMode)} })

layoutForPdf(resume, requestedMode) ==
  Only({ [model |-> adapted.model, modeUsed |-> adapted.modeUsed,
          measuredPages |-> MeasuredPages(adapted.model, adapted.modeUsed)] :
         adapted \in {adaptToFit(buildPdfModel(resume), requestedMode)} })

\* the LayoutAssessment of assessAtsLayout
assessAtsLayout(resume, opts) ==
  LET Assessment(layout, issues) ==
        [ok |-> issues = {}, requestedMode |-> AssessRequestedMode(opts),
         modeUsed |-> layout.modeUsed, pages |-> Len(layout.measuredPages), issues |-> issues]
  IN Only({ Assessment(layout, collectLayoutIssues(layout.model, AssessRequestedMode(opts),
                                                   layout.modeUsed, layout.measuredPages)) :
            layout \in {layoutForPdf(resume, AssessRequestedMode(opts))} })

\* ---------------------------------------------------------------------
\* The documents explored
\* ---------------------------------------------------------------------
MaxRoles == 3
MaxProjects == 5
MaxEdu == 3
MaxCerts == 10
MaxPageCount == 3
MaxCalls == 2
MaxRequests == 3
MaxRuns == 2
MaxMarginPt == 6000
MaxPhase == 6
MaxBullets == 5
MaxTarget == 4
MaxMergeProjects == 6
MaxWords == 3
MaxClamp == 2
MaxWrapWords == 3
MaxSkills == 12

RoleShapes == {"std", "big", "tiny"}
ProjectShapes == {"std", "bare", "filler"}
SummaryKinds == {"none", "short", "filler", "long"}

\* the achievements of a role of the given shape; bullet j of role i is source 100 i + j
Achievements(i, shape) ==
  CASE shape = "std" -> << Words(100 * i + 1, "n", 10), Words(100 * i + 2, "n", 10) >>
    [] shape = "big" -> [j \in 1..3 |-> Words(100 * i + j, "u", 22)]
    [] shape = "tiny" -> << Words(100 * i + 1, "n", 5) >>
    [] shape = "mid" -> [j \in 1..3 |-> Words(100 * i + j, "u", 8)]
    [] shape = "huge" -> [j \in 1..3 |-> Words(100 * i + j, "u", 50)]
    [] shape = "column" -> << Words(100 * i + 1, "u", 24 + i) >>
    [] shape = "paren" -> << Words(100 * i + 1, "p", 1), Words(100 * i + 2, "n", 10),
                             Words(100 * i + 3, "n", 10) >>

ProjectOf(i, shape) ==
  [id |-> i,
   name |-> Words(1000 + 10 * i, "n", 3),
   description |-> CASE shape = "std" -> Words(1000 + 10 * i + 1, "n", 10)
                     [] shape = "bare" -> <<>>
                     [] shape = "filler" -> Words(1000 + 10 * i + 1, "f", 1),
   impact |-> IF shape = "bare" THEN <<>> ELSE Words(1000 + 10 * i + 2, "n", 10)]

SummaryOf(kind) ==
  CASE kind = "none" -> <<>>
    [] kind = "short" -> Words(1, "n", 20)
    [] kind = "filler" -> Words(1, "n", 20) \o Words(1, "f", 2) \o Words(1, "v", 1)
    [] kind = "long" -> Words(1, "l", 70)

Personal ==
  [email |-> [id |-> "email", w |-> 11000], phone |-> [id |-> "phone", w |-> 7000],
   location |-> [id |-> "location", w |-> 6000], linkedin |-> [id |-> "linkedin", w |-> 12000],
   github |-> [id |-> "github", w |-> 0], portfolio |-> [id |-> "portfolio", w |-> 0]]

Skills ==
  << [label |-> 9, skills |-> [k \in 1..4 |-> [id |-> k, len |-> 6]]],
     [label |-> 5, skills |-> [k \in 1..3 |-> [id |-> 10 + k, len |-> 8]]] >>

\* roles: a sequence of role shapes; projects: a sequence of project shapes
Doc(summaryKind, roles, projects, nEdu, nCerts) ==
  [summary |-> SummaryOf(summaryKind),
   experience |-> [i \in 1..Len(roles) |-> [id |-> i, achievements |-> Achievements(i, roles[i])]],
   projects |-> [i \in 1..Len(projects) |-> ProjectOf(i, projects[i])],
   skills |-> Skills,
   education |-> [i \in 1..nEdu |-> [id |-> i, year |-> 2010 + i]],
   certifications |-> [i \in 1..nCerts |-> Words(2000 + i, "n", 5)],
   personal |-> Personal]

SeqsUpTo(S, n) == UNION {[1..k -> S] : k \in 0..n}

\* k projects, the first of the given shape and the others standard
ProjectsLed(shape, k) == [i \in 1..k |-> IF i = 1 THEN shape ELSE "std"]

Std(k) == [i \in 1..k |-> "std"]

Docs ==
       {Doc("short", roles, <<>>, 1, 0) : roles \in SeqsUpTo(RoleShapes, MaxRoles)}
  \cup {Doc("short", <<"std">>, ProjectsLed(shape, k), 1, 0) :
          shape \in ProjectShapes, k \in 1..MaxProjects}
  \cup {Doc("short", [i \in 1..MaxRoles |-> "big"], Std(MaxProjects), nEdu, 0) : nEdu \in 1..2}
  \cup {Doc(kind, roles, <<>>, 1, 0) : kind \in SummaryKinds, roles \in {<<>>, <<"paren">>}}
  \cup {Doc("short", <<"std">>, <<>>, nEdu, 0) : nEdu \in 0..MaxEdu}
  \cup {Doc("short", Std(3), Std(2), 1, nCerts) : nCerts \in 0..MaxCerts}
  \cup {Doc("short", <<"std", "huge">>, Std(k), 1, 0) : k \in 0..1}
  \cup {Doc("short", <<"column", "column">>, Std(k), 1, 0) : k \in 0..1}
  \cup {Doc("short", <<"std", "std", "mid">>, Std(MaxProjects), nEdu, MaxCerts) : nEdu \in 1..2}

\* no requestedPageCount, or one from 0 to MaxPageCount
Options == {<<>>} \cup {<<n>> : n \in 0..MaxPageCount}

\* ---------------------------------------------------------------------
\* The state machine: one editing session on a document.  The layout is
\* assessed (assessAtsLayout), then rendered (generateAtsOptimizedPdf), and
\* the rendered model is compressed once more (adaptToFit on its own output).
\* ---------------------------------------------------------------------
VARIABLES
  doc,            \* the resume
  options,        \* the export options of the session
  caller,         \* the entry point running: "assess", "generate", "recompress"
  pc,             \* its position: idle, adapt, steps, adapted, laid
  requestedMode,
  base,           \* the model adaptToFit was called with
  model,          \* adaptToFit's working model
  applied,        \* the compression steps adaptToFit has applied, by name
  modeUsed,       \* "none" until adaptToFit returns
  pages,          \* measuredPages of layoutForPdf
  assessment,     \* the LayoutAssessment returned, <<>> before
  generated,      \* the GeneratedAtsPdf returned, <<>> before
  first           \* the result of the adaptToFit run that is re-run, <<>> before

\* the variables of one call of the pipeline
pipeVars == << doc, options, caller, pc, requestedMode, base, model, applied, modeUsed, pages,
               assessment, generated, first >>

\* Font loading: the module-level fontCache and the calls that resolve their
\* fonts concurrently.
VARIABLES
  server,         \* what a fetch of each font path yields
  fontCache,      \* per path: absent, pending, or the value the promise settled to
  fetched,        \* per path: the network fetches issued
  calls           \* per call: its position in resolveFonts, its fonts, its result

fontVars == << server, fontCache, fetched, calls >>

VARIABLES
  header,         \* the contact fields of the header given to layoutHeader
  headerLayout,   \* <<>> or << the layout layoutHeader returned >>
  edit,           \* the editor's handleEdit: its position and the state it sets
  preview         \* the editor's preview effect: requests, renders, displayed PDF

headerVars == << header, headerLayout >>

editorVars == << edit, preview >>

\* A function checked by itself: the arguments it is called with, and what
\* it returned.
VARIABLES
  arg,            \* <<>> or the arguments of the call
  ret             \* <<>> or << the value returned, or "Error" when it threw >>

unitVars == << arg, ret >>

\* The server: the runs handed to runGeminiWithPacingAndRetry.
VARIABLES
  runs,           \* per run: its position, its attempts, how it settled
  submitted,      \* the runs in the order they were chained on geminiQueue
  started         \* the runs in the order they began to execute

serverVars == << runs, submitted, started >>

vars == << pipeVars, fontVars, headerVars, editorVars, unitVars, serverVars >>

NoModel == [header |-> Personal, sections |-> <<>>]

\* no call of the pipeline has been made
PipeIdle ==
  /\ caller = "none"
  /\ pc = "idle"
  /\ requestedMode = "none"
  /\ base = NoModel
  /\ model = NoModel
  /\ applied = <<>>
  /\ modeUsed = "none"
  /\ pages = <<>>
  /\ assessment = <<>>
  /\ generated = <<>>
  /\ first = <<>>

\* the font files resolveFonts asks for, in the order it asks
FontPaths == {"Calibri", "CalibriBold", "Arial", "ArialBold"}

Candidates ==
  << [regular |-> "Calibri", bold |-> "CalibriBold"],
     [regular |-> "Arial", bold |-> "ArialBold"] >>

IdleCall ==
  [pc |-> "idle", cand |-> 0, which |-> "none", reg |-> "none",
   got |-> [path \in FontPaths |-> "none"], fonts |-> "none", result |-> <<>>]

\* an empty fontCache and no call begun
FontsIdle ==
  /\ fontCache = [path \in FontPaths |-> "absent"]
  /\ fetched = [path \in FontPaths |-> 0]
  /\ calls = [r \in 1..MaxCalls |-> IdleCall]

\* no header laid out by itself
HeaderIdle ==
  /\ header = Personal
  /\ headerLayout = <<>>

\* the editor's state after useState: nothing typed, no edit under way
IdleEdit ==
  [pc |-> "idle", instruction |-> FALSE, apiKey |-> FALSE, isCooldownActive |-> FALSE,
   isEditing |-> FALSE, editError |-> FALSE, updatedResume |-> <<>>, assessment |-> <<>>,
   outcome |-> "none", before |-> <<>>]

NoRender == [st |-> "none", cancelled |-> FALSE, prevUrl |-> 0, superseded |-> FALSE]

\* the preview before the editor is mounted: no PDF generated, no effect run
IdlePreview ==
  [requests |-> 0, flushed |-> 0, closureUrl |-> 0,
   renders |-> [n \in 1..MaxRequests |-> NoRender],
   generatedPdf |-> 0, revoked |-> {}, isRenderingPdf |-> FALSE]

EditorIdle ==
  /\ edit = IdleEdit
  /\ preview = IdlePreview

\* no function called by itself
UnitIdle ==
  /\ arg = <<>>
  /\ ret = <<>>

NoRun == [st |-> "none", attempts |-> 0, rateLimited |-> FALSE]

\* geminiQueue as the module is loaded: a resolved promise, nothing chained
ServerIdle ==
  /\ runs = [r \in 1..MaxRuns |-> NoRun]
  /\ submitted = <<>>
  /\ started = <<>>

Init ==
  /\ doc \in Docs
  /\ options \in Options
  /\ PipeIdle
  /\ server = [path \in FontPaths |-> "missing"]
  /\ FontsIdle
  /\ UnitIdle
  /\ ServerIdle
  /\ HeaderIdle
  /\ EditorIdle

\* entry of layoutForPdf: build the base model
Enter(who, mode) ==
  /\ caller' = who
  /\ requestedMode' = mode
  /\ base' = buildPdfModel(doc)
  /\ model' = NoModel
  /\ applied' = <<>>
  /\ modeUsed' = "none"
  /\ pages' = <<>>
  /\ pc' = "adapt"

AssessStart ==
  /\ pc = "idle" /\ assessment = <<>>
  /\ Enter("assess", AssessRequestedMode(options))
  /\ UNCHANGED << doc, options, assessment, generated, first >>
  /\ UNCHANGED << unitVars, serverVars, fontVars, headerVars, editorVars >>

GenerateStart ==
  /\ pc = "idle" /\ assessment # <<>> /\ generated = <<>>
  /\ Enter("generate", GenRequestedMode(options))
  /\ UNCHANGED << doc, options, assessment, generated, first >>
  /\ UNCHANGED << unitVars, serverVars, fontVars, headerVars, editorVars >>

\* adaptToFit, multi-page request
AdaptMulti ==
  /\ pc = "adapt" /\ requestedMode = "multi-page"
  /\ model' = enforceConstraints(base)
  /\ modeUsed' = "multi-page"
  /\ pc' = "adapted"
  /\ UNCHANGED << doc, options, caller, requestedMode, base, applied, pages, assessment,
                  generated, first >>
  /\ UNCHANGED << unitVars, serverVars, fontVars, headerVars, editorVars >>

\* adaptToFit, strict request: base constraints and section contracts; the
\* two-page path tests the fit at once
AdaptBegin ==
  /\ pc = "adapt" /\ requestedMode \in {"one-page", "two-page"}
  /\ model' = enforceSectionContracts(enforceConstraints(base), requestedMode)
  /\ IF requestedMode = "two-page" /\ FitsLoose(model', "two-page")
       THEN modeUsed' = "two-page" /\ pc' = "adapted"
       ELSE modeUsed' = "none" /\ pc' = "steps"
  /\ UNCHANGED << doc, options, caller, requestedMode, base, applied, pages, assessment,
                  generated, first >>
  /\ UNCHANGED << unitVars, serverVars, fontVars, headerVars, editorVars >>

\* one iteration of the step loop
AdaptStep ==
  /\ pc = "steps" /\ Len(applied) < Len(StepsOf(requestedMode))
  /\ LET name == StepsOf(requestedMode)[Len(applied) + 1]
     IN /\ model' = enforceSectionContracts(ApplyStep(name, model, requestedMode),
                                           requestedMode)
        /\ applied' = Append(applied, name)
  /\ IF FitsLoose(model', requestedMode)
       THEN modeUsed' = requestedMode /\ pc' = "adapted"
       ELSE modeUsed' = "none" /\ pc' = "steps"
  /\ UNCHANGED << doc, options, caller, requestedMode, base, pages, assessment, generated,
                  first >>
  /\ UNCHANGED << unitVars, serverVars, fontVars, headerVars, editorVars >>

\* one-page, after the loop: tighter spacing before giving up
AdaptTight ==
  /\ pc = "steps" /\ requestedMode = "one-page" /\ Len(applied) = Len(StepsOf(requestedMode))
  /\ model' = enforceSectionContracts(enforceConstraints(model), "one-page")
  /\ modeUsed' = IF FitsTight(model') THEN "one-page" ELSE "multi-page"
  /\ applied' = Append(applied, "tight")
  /\ pc' = "adapted"
  /\ UNCHANGED << doc, options, caller, requestedMode, base, pages, assessment, generated,
                  first >>
  /\ UNCHANGED << unitVars, serverVars, fontVars, headerVars, editorVars >>

\* two-page, after the loop: fall back to multi-page
AdaptExhausted ==
  /\ pc = "steps" /\ requestedMode = "two-page" /\ Len(applied) = Len(StepsOf(requestedMode))
  /\ modeUsed' = "multi-page"
  /\ pc' = "adapted"
  /\ UNCHANGED << doc, options, caller, requestedMode, base, model, applied, pages, assessment,
                  generated, first >>
  /\ UNCHANGED << unitVars, serverVars, fontVars, headerVars, editorVars >>

\* layoutForPdf: paginate the adapted model
Layout ==
  /\ pc = "adapted" /\ caller \in {"assess", "generate"}
  /\ pages' = MeasuredPages(model, modeUsed)
  /\ pc' = "laid"
  /\ UNCHANGED << doc, options, caller, requestedMode, base, model, applied, modeUsed,
                  assessment, generated, first >>
  /\ UNCHANGED << unitVars, serverVars, fontVars, headerVars, editorVars >>

\* not the code's return: ok whatever the issues
AssessReturnAlwaysOk ==
  /\ pc = "laid" /\ caller = "assess"
  /\ LET Assessment(issues) ==
           [ok |-> TRUE, requestedMode |-> requestedMode, modeUsed |-> modeUsed,
            pages |-> Len(pages), issues |-> issues]
     IN assessment' = << Assessment(collectLayoutIssues(model, requestedMode, modeUsed, pages)) >>
  /\ pc' = "idle"
  /\ UNCHANGED << doc, options, caller, requestedMode, base, model, applied, modeUsed, pages,
                  generated, first >>
  /\ UNCHANGED << unitVars, serverVars, fontVars, headerVars, editorVars >>

AssessReturn ==
  /\ pc = "laid" /\ caller = "assess"
  /\ LET Assessment(issues) ==
           [ok |-> issues = {}, requestedMode |-> requestedMode, modeUsed |-> modeUsed,
            pages |-> Len(pages), issues |-> issues]
     IN assessment' = << Assessment(collectLayoutIssues(model, requestedMode, modeUsed, pages)) >>
  /\ pc' = "idle"
  /\ UNCHANGED << doc, options, caller, requestedMode, base, model, applied, modeUsed, pages,
                  generated, first >>
  /\ UNCHANGED << unitVars, serverVars, fontVars, headerVars, editorVars >>

GenerateReturn ==
  /\ pc = "laid" /\ caller = "generate"
  /\ generated' = << [pages |-> Len(pages), modeUsed |-> modeUsed] >>
  /\ pc' = "idle"
  /\ UNCHANGED << doc, options, caller, requestedMode, base, model, applied, modeUsed, pages,
                  assessment, first >>
  /\ UNCHANGED << unitVars, serverVars, fontVars, headerVars, editorVars >>

\* adaptToFit run again on the model it returned, in the same strict mode
Recompress ==
  /\ pc = "idle" /\ generated # <<>> /\ first = <<>>
  /\ modeUsed = requestedMode /\ requestedMode \in {"one-page", "two-page"}
  /\ first' = << [model |-> model, modeUsed |-> modeUsed] >>
  /\ caller' = "recompress"
  /\ base' = model
  /\ model' = NoModel
  /\ applied' = <<>>
  /\ modeUsed' = "none"
  /\ pc' = "adapt"
  /\ UNCHANGED << doc, options, requestedMode, pages, assessment, generated >>
  /\ UNCHANGED << unitVars, serverVars, fontVars, headerVars, editorVars >>

Next ==
  \/ AssessStart
  \/ GenerateStart
  \/ AdaptMulti
  \/ AdaptBegin
  \/ AdaptStep
  \/ AdaptTight
  \/ AdaptExhausted
  \/ Layout
  \/ AssessReturn
  \/ GenerateReturn
  \/ Recompress

Spec == Init /\ [][Next]_vars

\* adaptToFit is running: one of AdaptMulti, AdaptBegin, AdaptStep, AdaptTight
\* and AdaptExhausted is enabled
Running == pc \in {"adapt", "steps"}

\* adaptToFit is synchronous code: once called it runs on until it returns.
\* This is weak fairness of Next while adaptToFit is running, with the
\* enabling condition written as the state predicate Running.
LiveSpec == Init /\ [][Next]_vars /\ (<>[]Running => []<><<Next>>_vars)

\* ---------------------------------------------------------------------
\* Font loading under concurrent calls.  Each call (generateAtsOptimizedPdf
\* or assessAtsLayout) awaits resolveFonts, which awaits fetchFontBytes for the
\* regular and the bold file of each candidate in turn; calls interleave at
\* these awaits.  The layout that follows is synchronous.  The text widths of
\* the layout are measured with one metric, whatever fonts were resolved; the
\* resolved fonts are part of a call's result.
\* ---------------------------------------------------------------------
\* the font files served: none, Calibri, Arial only, a Calibri that cannot be
\* embedded, and a Calibri bold file whose fetch sometimes fails
Servers ==
  { [path \in FontPaths |-> "missing"],
    [path \in FontPaths |-> IF path \in {"Calibri", "CalibriBold"} THEN "valid" ELSE "missing"],
    [path \in FontPaths |-> IF path \in {"Arial", "ArialBold"} THEN "valid" ELSE "missing"],
    [path \in FontPaths |-> IF path = "Calibri" THEN "corrupt" ELSE "valid"],
    [path \in FontPaths |-> IF path = "CalibriBold" THEN "flaky" ELSE "valid"] }

\* what the promise of a fetch can settle to: the bytes, or null when the
\* response is not ok or the fetch throws
Outcomes(kind) ==
  CASE kind = "valid" -> {"bytes"}
    [] kind = "corrupt" -> {"corrupt"}
    [] kind = "missing" -> {"null"}
    [] kind = "flaky" -> {"bytes", "null"}

Settled == {"bytes", "corrupt", "null"}

\* not the code's test: a fetch is issued unless the path has a settled entry
IssuesFetchUnlessSettled(cache, path) == cache[path] \notin Settled

\* not the code's test: a fetch is issued on every call
IssuesFetchAlways(cache, path) == TRUE

\* fetchFontBytes issues a fetch when the cache has no entry for the path
IssuesFetch(cache, path) == cache[path] = "absent"

\* the synchronous part of fetchFontBytes(path)
fetchFontBytes(path) ==
  IF IssuesFetch(fontCache, path)
    THEN /\ fontCache' = [fontCache EXCEPT ![path] = "pending"]
         /\ fetched' = [fetched EXCEPT ![path] = @ + 1]
    ELSE UNCHANGED << fontCache, fetched >>

\* the documents and options of the concurrent calls
FontDocs == {Doc("short", <<"std">>, <<>>, 1, 0), Doc("short", Std(3), Std(2), 1, 6)}

FontInit ==
  /\ doc \in FontDocs
  /\ options \in {<<>>, <<2>>}
  /\ PipeIdle
  /\ server \in Servers
  /\ FontsIdle
  /\ UnitIdle
  /\ ServerIdle
  /\ HeaderIdle
  /\ EditorIdle

\* a call is made: it runs up to its first await, in fetchFontBytes
StartCall(r) ==
  /\ calls[r].pc = "idle"
  /\ calls' = [calls EXCEPT ![r].pc = "await", ![r].cand = 1, ![r].which = "regular"]
  /\ fetchFontBytes(Candidates[1].regular)
  /\ UNCHANGED << pipeVars, unitVars, serverVars, headerVars, editorVars, server >>

\* the fetch of a path completes
FetchSettles(path) ==
  /\ fontCache[path] = "pending"
  /\ \E value \in Outcomes(server[path]) : fontCache' = [fontCache EXCEPT ![path] = value]
  /\ UNCHANGED << pipeVars, unitVars, serverVars, headerVars, editorVars, server, fetched, calls >>

\* resolveFonts resumes after an await of fetchFontBytes: after the regular
\* file it asks for the bold one; after the bold one it embeds the pair if both
\* are there and can be embedded, and otherwise goes on to the next candidate
\* or to Helvetica
ResolveFontsResumes(r) ==
  /\ calls[r].pc = "await"
  /\ LET c == calls[r]
         path == IF c.which = "regular" THEN Candidates[c.cand].regular
                 ELSE Candidates[c.cand].bold
         value == fontCache[path]
         got == [c.got EXCEPT ![path] = value]
     IN /\ value \in Settled
        /\ IF c.which = "regular"
             THEN /\ calls' = [calls EXCEPT ![r].which = "bold", ![r].reg = value, ![r].got = got]
                  /\ fetchFontBytes(Candidates[c.cand].bold)
           ELSE IF c.reg = "bytes" /\ value = "bytes"
             THEN /\ calls' = [calls EXCEPT ![r].pc = "resolved", ![r].got = got,
                                            ![r].fonts = Candidates[c.cand].regular]
                  /\ UNCHANGED << fontCache, fetched >>
           ELSE IF c.cand < Len(Candidates)
             THEN /\ calls' = [calls EXCEPT ![r].cand = c.cand + 1, ![r].which = "regular",
                                            ![r].got = got]
                  /\ fetchFontBytes(Candidates[c.cand + 1].regular)
           ELSE /\ calls' = [calls EXCEPT ![r].pc = "resolved", ![r].got = got,
                                          ![r].fonts = "Helvetica"]
                /\ UNCHANGED << fontCache, fetched >>
  /\ UNCHANGED << pipeVars, unitVars, serverVars, headerVars, editorVars, server >>

\* the call lays the resume out with the fonts it resolved, and returns
CallReturns(r) ==
  /\ calls[r].pc = "resolved"
  /\ LET Result(layout) ==
           [fonts |-> calls[r].fonts, modeUsed |-> layout.modeUsed,
            measuredPages |-> layout.measuredPages]
     IN calls' = [calls EXCEPT ![r].pc = "done",
                               ![r].result = << Result(layoutForPdf(doc, GenRequestedMode(options))) >>]
  /\ UNCHANGED << pipeVars, unitVars, serverVars, headerVars, editorVars, server, fontCache, fetched >>

FontNext ==
  \/ \E r \in 1..MaxCalls : StartCall(r)
  \/ \E path \in FontPaths : FetchSettles(path)
  \/ \E r \in 1..MaxCalls : ResolveFontsResumes(r)
  \/ \E r \in 1..MaxCalls : CallReturns(r)

FontSpec == FontInit /\ [][FontNext]_vars

\* ---------------------------------------------------------------------
\* The header's contact lines.  A contact field is its identity and the
\* width of its text at the contact font size; an empty field has width 0.
\* ---------------------------------------------------------------------
ContactFields == <<"email", "phone", "location", "linkedin", "github", "portfolio">>

ContactFieldIds == { ContactFields[i] : i \in 1..Len(ContactFields) }

\* widths of a field: empty, short, long
ContactWidths == {0, 10000, 40000}

Headers ==
  { [f \in ContactFieldIds |-> [id |-> f, w |-> ws[f]]] :
      ws \in [ContactFieldIds -> ContactWidths] }

HeaderInit ==
  /\ doc = Doc("short", <<"std">>, <<>>, 1, 0)
  /\ options = <<>>
  /\ PipeIdle
  /\ server = [path \in FontPaths |-> "missing"]
  /\ FontsIdle
  /\ UnitIdle
  /\ ServerIdle
  /\ header \in Headers
  /\ headerLayout = <<>>
  /\ EditorIdle

\* layoutHeader is applied to the header
LayoutHeader ==
  /\ headerLayout = <<>>
  /\ headerLayout' = << layoutHeader(header) >>
  /\ UNCHANGED << pipeVars, unitVars, serverVars, fontVars, editorVars, header >>

\* a contact field of the header is rewritten, and the layout is stale
EditContact(f, w) ==
  /\ header[f].w # w
  /\ header' = [header EXCEPT ![f].w = w]
  /\ headerLayout' = <<>>
  /\ UNCHANGED << pipeVars, unitVars, serverVars, fontVars, editorVars >>

HeaderNext ==
  \/ LayoutHeader
  \/ \E f \in ContactFieldIds, w \in ContactWidths : EditContact(f, w)

HeaderSpec == HeaderInit /\ [][HeaderNext]_vars

\* ---------------------------------------------------------------------
\* The editor (ResumeEditor): the preview effect and handleEdit.  The resume
\* shown is doc, the requestedPageCount prop is options.  A render of the
\* preview is numbered by the request that began it, and the object URL of
\* its PDF carries the same number; 0 is no URL.  While the editor is mounted
\* the resume changes by onUpdate only.
\* ---------------------------------------------------------------------
\* requestedPageCount || 1
EditorPageCount(opts) == IF opts = <<>> \/ opts[1] = 0 THEN 1 ELSE opts[1]

\* the resumes the AI editor can propose
EditDocs ==
  { Doc("short", <<"std">>, <<>>, 1, 0),
    Doc("short", Std(3), Std(2), 1, 6),
    Doc("short", <<"std", "huge">>, <<>>, 1, 0) }

EditorInit ==
  /\ doc = Doc("short", <<"std", "std">>, <<>>, 1, 0)
  /\ options \in {<<>>, <<1>>, <<2>>}
  /\ PipeIdle
  /\ server = [path \in FontPaths |-> "missing"]
  /\ FontsIdle
  /\ UnitIdle
  /\ ServerIdle
  /\ HeaderIdle
  /\ \E key \in BOOLEAN : edit = [IdleEdit EXCEPT !.apiKey = key]
  /\ preview = IdlePreview

\* the component renders with a changed resume or page count (or for the
\* first time): the effect of this render is scheduled, and its closure holds
\* the generatedPdf of this render
Rerender(pv) == [pv EXCEPT !.requests = @ + 1, !.closureUrl = pv.generatedPdf]

\* the scheduled effect runs: the cleanup of the effect before it sets its
\* cancelled flag, then the new effect reads prevUrl from its closure and
\* calls run(), which sets isRenderingPdf and awaits the PDF
FlushEffect(pv) ==
  IF pv.flushed = pv.requests THEN pv
  ELSE [pv EXCEPT
          !.flushed = pv.requests,
          !.renders = [n \in 1..MaxRequests |->
                         IF n = pv.requests
                           THEN [st |-> "inflight", cancelled |-> FALSE,
                                 prevUrl |-> pv.closureUrl, superseded |-> FALSE]
                         ELSE IF n = pv.flushed THEN [pv.renders[n] EXCEPT !.cancelled = TRUE]
                         ELSE pv.renders[n]],
          !.isRenderingPdf = TRUE]

\* the editor is mounted
Mount ==
  /\ preview.requests = 0
  /\ preview' = Rerender(preview)
  /\ UNCHANGED << pipeVars, unitVars, serverVars, fontVars, headerVars, edit >>

\* the passive effects of the last render are run, some time after its commit
EffectFlush ==
  /\ preview.flushed < preview.requests
  /\ preview' = FlushEffect(preview)
  /\ UNCHANGED << pipeVars, unitVars, serverVars, fontVars, headerVars, edit >>

\* generateAtsOptimizedPdf of render n resolves and run() resumes
RenderCompletes(n) ==
  /\ preview.renders[n].st = "inflight"
  /\ LET r == preview.renders[n]
         late == n < preview.requests
     IN IF r.cancelled
          THEN preview' = [preview EXCEPT
                             !.renders[n].st = "discarded",
                             !.renders[n].superseded = late,
                             !.revoked = @ \cup {n}]
          ELSE preview' = [preview EXCEPT
                             !.renders[n].st = "installed",
                             !.renders[n].superseded = late,
                             !.generatedPdf = n,
                             !.revoked = @ \cup ({r.prevUrl} \ {0}),
                             !.isRenderingPdf = FALSE]
  /\ UNCHANGED << pipeVars, unitVars, serverVars, fontVars, headerVars, edit >>

\* generateAtsOptimizedPdf of render n rejects: the catch logs, the finally runs
RenderFails(n) ==
  /\ preview.renders[n].st = "inflight"
  /\ preview' = [preview EXCEPT
                    !.renders[n].st = "failed",
                    !.isRenderingPdf = IF preview.renders[n].cancelled THEN @ ELSE FALSE]
  /\ UNCHANGED << pipeVars, unitVars, serverVars, fontVars, headerVars, edit >>

\* the user types into, or clears, the instruction
TypeInstruction ==
  /\ preview.requests > 0
  /\ edit' = [edit EXCEPT !.instruction = ~@]
  /\ UNCHANGED << pipeVars, unitVars, serverVars, fontVars, headerVars, preview >>

\* the cooldown after an HTTP 429 runs out
CooldownEnds ==
  /\ edit.isCooldownActive
  /\ edit' = [edit EXCEPT !.isCooldownActive = FALSE]
  /\ UNCHANGED << pipeVars, unitVars, serverVars, fontVars, headerVars, preview >>

\* not the code's test: every assessed edit is accepted
AcceptsAlways(assessed) == TRUE

\* handleEdit goes on to onUpdate when the assessment is ok
Accepts(assessed) == assessed.ok

\* handleEdit up to its first await.  The form is submitted while no edit is
\* under way (the button is disabled while isEditing).
HandleEdit ==
  /\ preview.requests \in 1..(MaxRequests - 1)
  /\ edit.pc = "idle"
  /\ IF ~edit.instruction \/ edit.isCooldownActive
       THEN edit' = [edit EXCEPT !.outcome = "ignored"]
     ELSE IF ~edit.apiKey
       THEN edit' = [edit EXCEPT !.editError = TRUE, !.outcome = "refused"]
     ELSE edit' = [edit EXCEPT !.pc = "posting", !.isEditing = TRUE, !.editError = FALSE,
                               !.outcome = "none", !.before = << doc >>,
                               !.updatedResume = <<>>, !.assessment = <<>>]
  /\ UNCHANGED << pipeVars, unitVars, serverVars, fontVars, headerVars, preview >>

\* postAiEditor resolves with an updated resume
PostReturns(updated) ==
  /\ edit.pc = "posting"
  /\ edit' = [edit EXCEPT !.pc = "assessing", !.updatedResume = << updated >>]
  /\ UNCHANGED << pipeVars, unitVars, serverVars, fontVars, headerVars, preview >>

\* postAiEditor rejects, with HTTP 429 or otherwise: catch, then finally
PostFails(rateLimited) ==
  /\ edit.pc = "posting"
  /\ edit' = [edit EXCEPT !.pc = "idle", !.editError = TRUE, !.isEditing = FALSE,
                          !.isCooldownActive = @ \/ rateLimited, !.outcome = "failed"]
  /\ UNCHANGED << pipeVars, unitVars, serverVars, fontVars, headerVars, preview >>

\* assessAtsLayout resolves: the edit is committed by onUpdate, and the editor
\* renders with the new resume; or the edit is thrown away with an error
AssessReturns ==
  /\ edit.pc = "assessing"
  /\ LET assessed == assessAtsLayout(edit.updatedResume[1], << EditorPageCount(options) >>)
     IN IF Accepts(assessed)
          THEN /\ doc' = edit.updatedResume[1]
               /\ edit' = [edit EXCEPT !.pc = "idle", !.isEditing = FALSE, !.instruction = FALSE,
                                       !.assessment = << assessed >>, !.outcome = "committed"]
               /\ preview' = Rerender(FlushEffect(preview))
          ELSE /\ doc' = doc
               /\ edit' = [edit EXCEPT !.pc = "idle", !.isEditing = FALSE, !.editError = TRUE,
                                       !.assessment = << assessed >>, !.outcome = "rejected"]
               /\ preview' = preview
  /\ UNCHANGED << options, caller, pc, requestedMode, base, model, applied, modeUsed, pages,
                  assessment, generated, first, fontVars, headerVars, unitVars, serverVars >>

EditorNext ==
  \/ Mount
  \/ EffectFlush
  \/ \E n \in 1..MaxRequests : RenderCompletes(n)
  \/ \E n \in 1..MaxRequests : RenderFails(n)
  \/ TypeInstruction
  \/ CooldownEnds
  \/ HandleEdit
  \/ \E updated \in EditDocs : PostReturns(updated)
  \/ \E rateLimited \in BOOLEAN : PostFails(rateLimited)
  \/ AssessReturns

EditorSpec == EditorInit /\ [][EditorNext]_vars

\* ---------------------------------------------------------------------
\* Functions checked by themselves.  Everything else is at rest.
\* ---------------------------------------------------------------------
AtRest ==
  /\ doc = Doc("short", <<"std">>, <<>>, 1, 0)
  /\ options = <<>>
  /\ PipeIdle
  /\ server = [path \in FontPaths |-> "missing"]
  /\ fontCache = [path \in FontPaths |-> "absent"]
  /\ fetched = [path \in FontPaths |-> 0]
  /\ calls = [r \in 1..MaxCalls |-> IdleCall]
  /\ HeaderIdle
  /\ EditorIdle

\* the function is called on arg and returns, or throws
Returns(value) ==
  /\ ret = <<>>
  /\ ret' = << value >>
  /\ UNCHANGED << pipeVars, fontVars, headerVars, editorVars, serverVars, arg >>

\* the next call is made, with other arguments
CalledWith(args) ==
  /\ ret # <<>>
  /\ arg' = args
  /\ ret' = <<>>
  /\ UNCHANGED << pipeVars, fontVars, headerVars, editorVars, serverVars >>

\* --- the margin guard ------------------------------------------------
\* not the guard: the minimum itself is refused too
assertMarginsOkAtOrBelow(marginPt) == IF marginPt <= MIN_MARGIN_PT THEN "Error" ELSE "ok"

\* assertMarginsOk throws below the minimum
assertMarginsOk(marginPt) == IF marginPt < MIN_MARGIN_PT THEN "Error" ELSE "ok"

\* margins in hundredths of a point
MarginValues == 0..MaxMarginPt

MarginInit ==
  /\ AtRest
  /\ ServerIdle
  /\ arg \in {<< marginPt >> : marginPt \in MarginValues}
  /\ ret = <<>>

AssertMargins == Returns(assertMarginsOk(arg[1]))

\* the guard is given the margin the engine lays pages out with
EngineMargin == CalledWith(<< MARGIN_PT >>)

MarginNext == AssertMargins \/ EngineMargin

MarginSpec == MarginInit /\ [][MarginNext]_vars

\* --- the orchestrator -------------------------------------------------
\* A message is the set of the keyword groups it contains.
KeywordGroups == {"edit", "jd", "align", "ats"}

OrchestratorInputs ==
  [message : SUBSET KeywordGroups, resumeJSON : {"null", "object"}, phase : 0..MaxPhase]

\* step 1 of route: the intent detected
DetectIntent(input) ==
  IF input.resumeJSON = "null" THEN "GENERATE_RESUME"
  ELSE IF "edit" \in input.message THEN "EDIT_RESUME"
  ELSE IF "jd" \in input.message THEN "ANALYZE_JD"
  ELSE IF "align" \in input.message THEN "ALIGN_WITH_JD"
  ELSE IF "ats" \in input.message THEN "SCORE_ATS"
  ELSE "UNSUPPORTED"

\* not the code's rule: editing is allowed from phase 3 only
IsAllowedEditLate(phase, intent) ==
  \/ phase >= 1 /\ intent = "GENERATE_RESUME"
  \/ phase >= 3 /\ intent = "EDIT_RESUME"
  \/ phase >= 3 /\ intent \in {"ANALYZE_JD", "ALIGN_WITH_JD"}
  \/ phase >= 4 /\ intent = "SCORE_ATS"
  \/ phase >= 5

\* step 2 of route: isAllowed
IsAllowed(phase, intent) ==
  \/ phase >= 1 /\ intent = "GENERATE_RESUME"
  \/ phase >= 2 /\ intent = "EDIT_RESUME"
  \/ phase >= 3 /\ intent \in {"ANALYZE_JD", "ALIGN_WITH_JD"}
  \/ phase >= 4 /\ intent = "SCORE_ATS"
  \/ phase >= 5

\* step 4 of route: the agent of an intent
AgentOf(intent) ==
  CASE intent = "GENERATE_RESUME" -> "ResumeGeneratorAgent"
    [] intent = "EDIT_RESUME" -> "ResumeEditAgent"
    [] intent = "ANALYZE_JD" -> "JDAnalyzerAgent"
    [] intent = "ALIGN_WITH_JD" -> "ResumeJDMergerAgent"
    [] intent = "SCORE_ATS" -> "ATSScoringAgent"
    [] OTHER -> "null"

\* OrchestratorAgent.route
route(input) ==
  LET intent == DetectIntent(input)
  IN IF intent = "UNSUPPORTED"
       THEN [intent |-> "UNSUPPORTED", agentToCall |-> "null"]
     ELSE IF ~IsAllowed(input.phase, intent)
       THEN [intent |-> "UNSUPPORTED", agentToCall |-> "null"]
     ELSE [intent |-> intent, agentToCall |-> AgentOf(intent)]

OrchestratorInit ==
  /\ AtRest
  /\ ServerIdle
  /\ arg \in {<< input >> : input \in OrchestratorInputs}
  /\ ret = <<>>

Route == Returns(route(arg[1]))

\* the same message and resume are routed in the next phase
NextPhase ==
  /\ arg[1].phase < MaxPhase
  /\ CalledWith(<< [arg[1] EXCEPT !.phase = @ + 1] >>)

OrchestratorNext == Route \/ NextPhase

OrchestratorSpec == OrchestratorInit /\ [][OrchestratorNext]_vars

\* --- merging bullets ---------------------------------------------------
\* bullet i of a list: empty, two words, or two words and a period
BulletTexts(i) ==
  { <<>>, Words(i, "n", 2),
    [Words(i, "n", 2) EXCEPT ![2] = AppendPunct(@, ".")] }

RECURSIVE BulletListsOf(_)
BulletListsOf(n) ==
  IF n = 0 THEN {<<>>}
  ELSE {Append(bullets, t) : bullets \in BulletListsOf(n - 1), t \in BulletTexts(n)}

BulletLists == UNION {BulletListsOf(n) : n \in 0..MaxBullets}

\* resumes whose role has nb achievements and which have k projects
MergeDocs ==
  { [Doc("short", <<"std">>, Std(k), 1, 0) EXCEPT
       !.experience = << [id |-> 1, achievements |-> [j \in 1..nb |-> Words(100 + j, "n", 3)]] >>] :
      k \in 0..MaxMergeProjects, nb \in 0..MaxBullets }

MergeInit ==
  /\ AtRest
  /\ ServerIdle
  /\ \/ arg \in {<< "mergeBulletsToCount", bullets, targetCount >> :
                    bullets \in BulletLists, targetCount \in 1..MaxTarget}
     \/ arg \in {<< "enforceConstraints", buildPdfModel(resume) >> : resume \in MergeDocs}
  /\ ret = <<>>

MergeBullets ==
  /\ arg[1] = "mergeBulletsToCount"
  /\ Returns(mergeBulletsToCount(arg[2], arg[3]))

EnforceConstraints ==
  /\ arg[1] = "enforceConstraints"
  /\ Returns(enforceConstraints(arg[2]))

\* the bullets merged are merged again, to one bullet fewer
MergeAgain ==
  /\ arg[1] = "mergeBulletsToCount"
  /\ arg[3] > 1
  /\ CalledWith(<< "mergeBulletsToCount", arg[2], arg[3] - 1 >>)

MergeNext == MergeBullets \/ EnforceConstraints \/ MergeAgain

MergeSpec == MergeInit /\ [][MergeNext]_vars

\* --- shortening texts ----------------------------------------------------
\* word i of a text: a plain word, a parenthetical or a filler adjective,
\* followed by nothing or by a semicolon
ShortenWords(i) ==
  { IF semi THEN AppendPunct(Word(i, c), ";") ELSE Word(i, c) :
      c \in {"n", "p", "f"}, semi \in BOOLEAN }

RECURSIVE ShortenTextsOf(_)
ShortenTextsOf(n) ==
  IF n = 0 THEN {<<>>}
  ELSE {Append(t, wd) : t \in ShortenTextsOf(n - 1), wd \in ShortenWords(n)}

\* the texts of one word or more
ShortenTexts == UNION {ShortenTextsOf(n) : n \in 1..MaxWords}

ShortenInit ==
  /\ AtRest
  /\ ServerIdle
  /\ arg \in {<< fn, t, max >> :
                 fn \in {"clampWords", "compressToWordBudget", "compressBulletToWordRange",
                         "compressProjectBulletToWordRange"},
                 t \in ShortenTexts, max \in 1..MaxClamp}
  /\ ret = <<>>

ClampWords ==
  /\ arg[1] = "clampWords"
  /\ Returns(clampWords(arg[2], arg[3]))

CompressToWordBudget ==
  /\ arg[1] = "compressToWordBudget"
  /\ Returns(compressToWordBudget(arg[2], arg[3]))

CompressBulletToWordRange ==
  /\ arg[1] = "compressBulletToWordRange"
  /\ Returns(compressBulletToWordRange(arg[2], arg[3]))

CompressProjectBulletToWordRange ==
  /\ arg[1] = "compressProjectBulletToWordRange"
  /\ Returns(compressProjectBulletToWordRange(arg[2], arg[3]))

\* the text returned is shortened again, by the same function
ShortenAgain ==
  /\ ret # <<>> /\ ret[1] # <<>>
  /\ CalledWith(<< arg[1], ret[1], arg[3] >>)

ShortenNext ==
  \/ ClampWords
  \/ CompressToWordBudget
  \/ CompressBulletToWordRange
  \/ CompressProjectBulletToWordRange
  \/ ShortenAgain

ShortenSpec == ShortenInit /\ [][ShortenNext]_vars

\* --- wrapping -------------------------------------------------------------
\* word i of a text: 5, 43 or 100 letters, followed by nothing or by a comma
WrapWords(i) ==
  { [src |-> i, cls |-> "n", end |-> IF comma THEN << "," >> ELSE <<>>,
     w |-> letters * CHAR_W + (IF comma THEN PUNCT_W ELSE 0)] :
      letters \in {5, 43, 100}, comma \in BOOLEAN }

RECURSIVE WrapTextsOf(_)
WrapTextsOf(n) ==
  IF n = 0 THEN {<<>>}
  ELSE {Append(t, wd) : t \in WrapTextsOf(n - 1), wd \in WrapWords(n)}

WrapTexts == UNION {WrapTextsOf(n) : n \in 0..MaxWrapWords}

\* the widths wrapText is called with, and columns of 20 and 8 letters
WrapWidths == {CONTENT_WIDTH_PT, BULLET_WIDTH, 20 * CHAR_W, 8 * CHAR_W}

\* the texts without a word of 100 letters, tried on a column of one letter
ShortWordTexts == {t \in WrapTexts : \A i \in 1..Len(t) : t[i].w < 100 * CHAR_W}

WrapInit ==
  /\ AtRest
  /\ ServerIdle
  /\ arg \in {<< t, maxWidth >> : t \in WrapTexts, maxWidth \in WrapWidths}
              \cup {<< t, CHAR_W >> : t \in ShortWordTexts}
  /\ ret = <<>>

WrapText == Returns(wrapText(arg[1], arg[2]))

\* the same text is wrapped to the bullet column
WrapAsBullet ==
  /\ arg[2] # BULLET_WIDTH
  /\ CalledWith(<< arg[1], BULLET_WIDTH >>)

WrapNext == WrapText \/ WrapAsBullet

WrapSpec == WrapInit /\ [][WrapNext]_vars

\* --- the skills contract -------------------------------------------------
\* "Languages", "Frameworks", "AI / Data", "Databases & Tools"
CategoryLabels == << 9, 10, 9, 17 >>

\* category c with n skills of len characters each
Category(c, n, len) ==
  [label |-> CategoryLabels[c], skills |-> [k \in 1..n |-> [id |-> 100 * c + k, len |-> len]]]

\* up to four categories: the first of n skills of one length, the others of
\* six skills of six characters
SkillSets ==
  { [c \in 1..cats |-> IF c = 1 THEN Category(c, n, len) ELSE Category(c, 6, 6)] :
      cats \in 1..SKILLS_MAX_CATEGORIES, n \in 1..MaxSkills, len \in {2, 6, 12, 20} }

SkillsInit ==
  /\ AtRest
  /\ ServerIdle
  /\ arg \in {<< buildPdfModel([doc EXCEPT !.skills = cats]), mode >> :
                cats \in SkillSets, mode \in {"one-page", "two-page"}}
  /\ ret = <<>>

EnforceSkillsContracts == Returns(enforceSkillsContracts(arg[1], arg[2]))

\* the same model goes through the two-page contract
SkillsForTwoPages ==
  /\ arg[2] = "one-page"
  /\ CalledWith(<< arg[1], "two-page" >>)

SkillsNext == EnforceSkillsContracts \/ SkillsForTwoPages

SkillsSpec == SkillsInit /\ [][SkillsNext]_vars

\* --- the education contract ----------------------------------------------
\* n roles, the first of one shape and the others of another
RolesLed(lead, rest, n) == [i \in 1..n |-> IF i = 1 THEN lead ELSE rest]

\* documents of up to MaxRoles roles, no or four projects and one to MaxEdu
\* education entries
EducationDocs ==
  { Doc("short", RolesLed(lead, rest, n), Std(k), nEdu, 0) :
      lead \in RoleShapes \cup {"mid"}, rest \in RoleShapes \cup {"mid"}, n \in 0..MaxRoles,
      k \in {0, 4}, nEdu \in 1..MaxEdu }

EducationInit ==
  /\ AtRest
  /\ ServerIdle
  /\ arg \in {<< buildPdfModel(d), mode >> : d \in EducationDocs, mode \in {"one-page", "two-page"}}
  /\ ret = <<>>

EnforceEducationContracts == Returns(enforceEducationContracts(arg[1], arg[2]))

\* the same model goes through the two-page contract
EducationForTwoPages ==
  /\ arg[2] = "one-page"
  /\ CalledWith(<< arg[1], "two-page" >>)

EducationNext == EnforceEducationContracts \/ EducationForTwoPages

EducationSpec == EducationInit /\ [][EducationNext]_vars

\* ---------------------------------------------------------------------
\* The server queue.  Each request handler calls runGeminiWithPacingAndRetry,
\* which chains its run on geminiQueue and returns the new promise; handlers
\* interleave at their awaits.  Everything else is at rest.
\* ---------------------------------------------------------------------
\* const delays = [0, 1000, 2000, 4000]
MAX_ATTEMPTS == 4

ServerInit ==
  /\ AtRest
  /\ UnitIdle
  /\ ServerIdle

\* the run the promise of run r was chained on: 0 for the resolved promise
\* geminiQueue starts as
ChainedOn(r) ==
  LET k == CHOOSE i \in 1..Len(submitted) : submitted[i] = r
  IN IF k = 1 THEN 0 ELSE submitted[k - 1]

RunSettled(r) == IF r = 0 THEN TRUE ELSE runs[r].st \in {"done", "failed"}

\* not the code: geminiQueue.then(run), so that a rejection is passed on
OnSettledThenOnly(prev) ==
  IF prev = 0 THEN "running" ELSE IF runs[prev].st = "failed" THEN "failed" ELSE "running"

\* geminiQueue.then(run, run): run is called whether prev fulfilled or rejected
OnSettled(prev) == "running"

\* geminiQueue = geminiQueue.then(run, run); return geminiQueue
Submit(r) ==
  /\ runs[r].st = "none"
  /\ runs' = [runs EXCEPT ![r].st = "queued"]
  /\ submitted' = Append(submitted, r)
  /\ UNCHANGED << pipeVars, fontVars, headerVars, editorVars, unitVars, started >>

\* the promise run r is chained on has settled: run is called, waits for the
\* minimum spacing and enters its loop
RunStarts(r) ==
  /\ runs[r].st = "queued"
  /\ RunSettled(ChainedOn(r))
  /\ runs' = [runs EXCEPT ![r].st = OnSettled(ChainedOn(r))]
  /\ started' = Append(started, r)
  /\ UNCHANGED << pipeVars, fontVars, headerVars, editorVars, unitVars, submitted >>

\* await fn() returns: the run fulfils its caller's promise
AttemptSucceeds(r) ==
  /\ runs[r].st = "running"
  /\ runs[r].attempts < MAX_ATTEMPTS
  /\ runs' = [runs EXCEPT ![r].st = "done", ![r].attempts = @ + 1]
  /\ UNCHANGED << pipeVars, fontVars, headerVars, editorVars, unitVars, submitted, started >>

\* await fn() throws: the loop goes on after a rate-limit error while delays
\* are left, and otherwise the run rejects with the last error
AttemptFails(r, isRateLimitError) ==
  /\ runs[r].st = "running"
  /\ runs[r].attempts < MAX_ATTEMPTS
  /\ runs' = [runs EXCEPT
                ![r].attempts = @ + 1,
                ![r].rateLimited = isRateLimitError,
                ![r].st = IF isRateLimitError /\ runs[r].attempts + 1 < MAX_ATTEMPTS
                            THEN "running" ELSE "failed"]
  /\ UNCHANGED << pipeVars, fontVars, headerVars, editorVars, unitVars, submitted, started >>

AttemptSettles(r) == AttemptSucceeds(r) \/ \E e \in BOOLEAN : AttemptFails(r, e)

ServerNext ==
  \E r \in 1..MaxRuns :
     \/ Submit(r)
     \/ RunStarts(r)
     \/ AttemptSucceeds(r)
     \/ \E e \in BOOLEAN : AttemptFails(r, e)

ServerSpec == ServerInit /\ [][ServerNext]_vars

\* a settled promise calls its handlers, and every call of fn settles: the run
\* that may start starts, and the attempt under way ends.  No request is
\* required to arrive.
ServerLiveSpec ==
  /\ ServerSpec
  /\ WF_vars(\E r \in 1..MaxRuns : RunStarts(r))
  /\ WF_vars(\E r \in 1..MaxRuns : AttemptSettles(r))

\* ---------------------------------------------------------------------
\* Properties
\* ---------------------------------------------------------------------
\* adaptToFit has returned to layoutForPdf (not the re-run on its own output)
Returned == pc = "adapted" /\ caller \in {"assess", "generate"}

Range(q) == {q[i] : i \in 1..Len(q)}

\* the sources of the words of the bullets of the model; source 0 is text the
\* compressor made up itself
WordSources(bullets) == UNION { {wd.src : wd \in Range(b)} : b \in Range(bullets) }

BulletSources(m) ==
  UNION { UNION { WordSources(it.bullets) :
                    it \in {x \in Range(sec.items) : x.kind \in {"job", "projects", "bullets"}} } :
          sec \in Range(m.sections) } \ {0}

\* C1: information preservation.  Every non-empty bullet or achievement
\* sentence of the model built by buildPdfModel is still represented in the
\* model adaptToFit returns (verbatim, merged or reworded, i.e. at least one of
\* its words is still there), whatever the requested mode.
C1_InformationPreserved ==
  Returned => BulletSources(base) \subseteq BulletSources(model)

\* layoutForPdf has paginated the model adaptToFit returned
Laid == pc = "laid"

Titles(m) == {sec.title : sec \in Range(m.sections)}

\* the ids of the entries (roles, projects, education entries) of a section
EntryIds(m, title) == {it.id : it \in Range(ItemsOf(m, title))}

\* the ids of the entries of a section that are placed on some page
PlacedIds(ps, title) ==
  UNION { UNION { Range(pb.block.items) :
                    pb \in {x \in Range(pg.blocks) : x.block.title = title} } :
          pg \in Range(ps) }

PlacedTitles(ps) ==
  UNION { {pb.block.title : pb \in Range(pg.blocks)} : pg \in Range(ps) } \ {"HEADER"}

EntrySections == {"EXPERIENCE", "PROJECTS", "EDUCATION"}

\* C2: degrade never loses.  When adaptToFit returns a mode other than the
\* requested one, the returned model and its pages still hold every section
\* and every role, project and education entry of the original document.
C2_DegradeKeepsEntries ==
  (Laid /\ modeUsed # requestedMode) =>
     /\ Titles(base) \subseteq Titles(model)
     /\ Titles(base) \subseteq PlacedTitles(pages)
     /\ \A title \in EntrySections :
          /\ EntryIds(base, title) \subseteq EntryIds(model, title)
          /\ EntryIds(base, title) \subseteq PlacedIds(pages, title)

\* C3: mode state machine.  The mode adaptToFit returns is the requested mode
\* or multi-page (so a multi-page request yields multi-page, a one-page request
\* never two-page and a two-page request never one-page), and multi-page is
\* returned for a strict request only after every compression step of that mode
\* (and, for one page, the tight-spacing retry) has been applied and the last
\* fit test has failed.
C3_ModeStateMachine ==
  modeUsed # "none" =>
     /\ modeUsed \in {requestedMode, "multi-page"}
     /\ (requestedMode = "one-page" /\ modeUsed = "multi-page") =>
          /\ applied = << "enforceExperienceContracts", "shortenAllBullets",
                          "enforceSkillsContracts", "clampSummaryStrict", "tight" >>
          /\ ~FitsTight(model)
     /\ (requestedMode = "two-page" /\ modeUsed = "multi-page") =>
          /\ applied = << "compressExperienceBullets", "shortenAllBullets",
                          "enforceSkillsContracts", "clampSummaryStrict",
                          "enforceExperienceContracts" >>
          /\ ~FitsLoose(model, "two-page")

\* a strict request has been degraded to multi-page
C3_Degraded ==
  /\ pc = "adapted"
  /\ requestedMode \in {"one-page", "two-page"}
  /\ modeUsed = "multi-page"

\* C4: the reported mode matches the pages produced.  When layoutForPdf
\* reports one-page its page list is one page within the content height; when
\* it reports two-page its page list is two pages, both within the content
\* height.
C4_ModeMatchesPages ==
  Laid =>
     /\ modeUsed = "one-page" =>
          Len(pages) = 1 /\ pages[1].usedHeight <= CONTENT_HEIGHT_PT
     /\ modeUsed = "two-page" =>
          Len(pages) = 2 /\ \A k \in 1..Len(pages) : pages[k].usedHeight <= CONTENT_HEIGHT_PT

\* C5: idempotence of the compressor.  When adaptToFit returned the requested
\* strict mode and is run again on the model it returned, in the same mode, it
\* returns that model unchanged, with the same mode.
C5_Idempotent ==
  (caller = "recompress" /\ pc = "adapted") =>
     /\ model = first[1].model
     /\ modeUsed = first[1].modeUsed

Jobs(m) == Range(SelectSeqBy(ItemsOf(m, "EXPERIENCE"), "job"))

Projects(m) == Range(SelectSeqBy(ItemsOf(m, "PROJECTS"), "projects"))

\* every bullet of the model: of roles, projects and bullet lists
AllBullets(m) ==
  UNION { UNION { Range(it.bullets) :
                    it \in {x \in Range(sec.items) : x.kind \in {"job", "projects", "bullets"}} } :
          sec \in Range(m.sections) }

\* C6: contract satisfaction for roles and bullets.  When the layout reports
\* the requested strict mode, every role of the returned model has at most the
\* mode's maximum bullet count (2 in one-page, 3 in two-page), every role
\* bullet has 1 to 20 words, every project bullet at most 22, and no bullet of
\* the returned model is empty.
C6_RoleBulletContract ==
  (Returned /\ modeUsed = requestedMode /\ requestedMode \in {"one-page", "two-page"}) =>
     /\ \A job \in Jobs(model) :
          /\ Len(job.bullets) <= (IF requestedMode = "one-page" THEN 2 ELSE 3)
          /\ \A b \in Range(job.bullets) : countWords(b) >= 1 /\ countWords(b) <= 20
     /\ \A project \in Projects(model) :
          \A b \in Range(project.bullets) : countWords(b) <= 22
     /\ \A b \in AllBullets(model) : b # <<>>

\* the wrapped lines of the summary paragraph of the model (none: no lines)
SummaryLines(m) ==
  LET para == SelectSeqBy(ItemsOf(m, "SUMMARY"), "paragraph")
  IN IF para = <<>> THEN <<>> ELSE wrapText(para[1].bullets[1], CONTENT_WIDTH_PT)

\* C7: summary contract.  When a one-page request is reported as one-page,
\* the summary paragraph wrapped at the content width takes at most 4 lines
\* and at most 70pt.
C7_SummaryContract ==
  (Returned /\ requestedMode = "one-page" /\ modeUsed = "one-page") =>
     /\ Len(SummaryLines(model)) <= SUMMARY_MAX_LINES
     /\ Len(SummaryLines(model)) * BODY_LINE_HEIGHT <= SUMMARY_MAX_HEIGHT_PT

\* C8: assessment and render never disagree.  For the same document and
\* options, assessAtsLayout and generateAtsOptimizedPdf return the same
\* modeUsed and the same number of pages.
C8_AssessMatchesRender ==
  (assessment # <<>> /\ generated # <<>>) =>
     /\ assessment[1].modeUsed = generated[1].modeUsed
     /\ assessment[1].pages = generated[1].pages

\* both entry points have returned, for a call without requestedPageCount
\* whose layout did not stay on one page
C8_BothReturned ==
  /\ assessment # <<>> /\ generated # <<>>
  /\ options = <<>>
  /\ generated[1].pages > 1

\* the strict two-page allocation is what layoutForPdf returned
StrictAllocation == Laid /\ modeUsed = "two-page" /\ ~TwoPageFallsBack(model)

RoleIds(m) ==
  LET jobs == SelectSeqBy(ItemsOf(m, "EXPERIENCE"), "job")
  IN [i \in 1..Len(jobs) |-> jobs[i].id]

\* the titles of the blocks of a page, top to bottom
BlockTitles(pg) == [i \in 1..Len(pg.blocks) |-> pg.blocks[i].block.title]

\* the ids of the roles placed on a page, top to bottom
RolesOn(pg) ==
  LET bs == SelectSeq(pg.blocks, LAMBDA pb : pb.block.title = "EXPERIENCE")
  IN [i \in 1..Len(bs) |-> bs[i].block.items[1]]

Rank(title) ==
  CASE title = "EXPERIENCE" -> 0
    [] title = "PROJECTS" -> 1
    [] title = "SKILLS" -> 2
    [] title = "EDUCATION" -> 3
    [] title = "CERTIFICATIONS" -> 4
    [] OTHER -> 5

\* C9: strict two-page allocation policy.  When paginateTwoPages returns its
\* own allocation, page 1 holds the header, then every SUMMARY block, then the
\* first k roles in document order, with k at most 2, at least 1 if there is a
\* role, and a second role only if it fits; page 2 holds the remaining roles in
\* document order and then PROJECTS, SKILLS, EDUCATION, CERTIFICATIONS in that
\* order.
C9_TwoPagePolicy ==
  StrictAllocation =>
     LET roles == RoleIds(model)
         k == Len(RolesOn(pages[1]))
         nSummary == Len(SummaryChunks(model))
         t1 == BlockTitles(pages[1])
         t2 == BlockTitles(pages[2])
     IN /\ t1 = <<"HEADER">> \o [i \in 1..nSummary |-> "SUMMARY"]
                             \o [i \in 1..k |-> "EXPERIENCE"]
        /\ k <= 2
        /\ roles # <<>> => k >= 1
        /\ k = 2 => pages[1].usedHeight <= CONTENT_HEIGHT_PT
        /\ RolesOn(pages[1]) = SubSeq(roles, 1, k)
        /\ RolesOn(pages[2]) = SubSeq(roles, k + 1, Len(roles))
        /\ \A i \in 1..(Len(t2) - 1) : Rank(t2[i]) <= Rank(t2[i + 1])
        /\ (Titles(model) \ {"SUMMARY", "EXPERIENCE"}) \subseteq Range(t2)

\* C10: role conservation in the strict two-page allocator.  Each role of the
\* EXPERIENCE section is placed exactly once, on exactly one of the two pages.
C10_RolesPlacedOnce ==
  StrictAllocation =>
     LET placed == RolesOn(pages[1]) \o RolesOn(pages[2])
     IN \A id \in Range(RoleIds(model)) :
          Cardinality({i \in 1..Len(placed) : placed[i] = id}) = 1

\* both pages of a two-page allocation are within the content height
WithinContentHeight(alloc) == \A k \in 1..2 : alloc[k].usedHeight <= CONTENT_HEIGHT_PT

\* C11: strict two-page fallback.  The pages layoutForPdf gets from
\* paginateTwoPages are the strict allocation exactly when neither of its two
\* pages is higher than the content height, and otherwise exactly the pages of
\* the greedy paginator; and adaptToFit, for a two-page request, returns
\* two-page exactly when paginateTwoPages gives at most 2 pages for the model
\* it returns.
C11_TwoPageFallback ==
  /\ (Laid /\ modeUsed = "two-page") =>
        /\ WithinContentHeight(TwoPageAllocation(model)) <=> pages = TwoPageAllocation(model)
        /\ ~WithinContentHeight(TwoPageAllocation(model)) => pages = paginate(model, FALSE)
  /\ (pc = "adapted" /\ requestedMode = "two-page") =>
        (modeUsed = "two-page" <=> Len(paginateTwoPages(model)) <= 2)

\* the strict allocation overflowed, the greedy pages of the fallback were at
\* most 2 and adaptToFit accepted them as two-page
C11_FallbackAccepted ==
  /\ Laid /\ modeUsed = "two-page"
  /\ ~WithinContentHeight(TwoPageAllocation(model))
  /\ pages = paginate(model, FALSE)

\* the blocks of a page list, first page first, top to bottom
RECURSIVE PlacedBlocks(_)
PlacedBlocks(ps) ==
  IF ps = <<>> THEN <<>>
  ELSE [i \in 1..Len(Head(ps).blocks) |-> Head(ps).blocks[i].block] \o PlacedBlocks(Tail(ps))

\* the blocks paginate packs: the header, then the chunks of every section
GreedyBlocks(m, tight) ==
  <<HeaderBlock(m)>>
    \o AllSectionBlocks(m.sections, Max(600, GAP_HEADING_TO_CONTENT - (IF tight THEN 200 ELSE 0)))

GreedyGap(tight) == Max(800, GAP_BETWEEN_SECTIONS - (IF tight THEN 200 ELSE 0))

\* the page-break rule on a page list ps packed from blocks with gap gapSection
GreedyRule(ps, blocks, gapSection) ==
  /\ PlacedBlocks(ps) = blocks
  /\ \A p \in 1..Len(ps) :
        /\ ps[p].blocks # <<>>
        /\ Len(ps[p].blocks) >= 2 => ps[p].usedHeight <= CONTENT_HEIGHT_PT
        /\ \A j \in 1..Len(ps[p].blocks) :
              ps[p].blocks[j].block.height > CONTENT_HEIGHT_PT => Len(ps[p].blocks) = 1
        /\ p > 1 => ps[p - 1].usedHeight + gapSection + ps[p].blocks[1].block.height
                       > CONTENT_HEIGHT_PT

\* C12: greedy paginator page-break rule.  For the model adaptToFit returns,
\* with normal and with tight spacing, paginate places every block exactly once
\* in model order, leaves no page empty, starts a page only when the block
\* that opens it, plus the gap, did not fit under what the page before it
\* already used, keeps every page of two or more blocks within the content
\* height, and places a block taller than a page alone on its page.
C12_GreedyPageBreaks ==
  (pc \in {"adapted", "laid"}) =>
     \A tight \in BOOLEAN :
        GreedyRule(paginate(model, tight), GreedyBlocks(model, tight), GreedyGap(tight))

\* the greedy pages returned hold a block taller than a page, alone on its
\* page, between pages of several blocks
C12_OversizedPlaced ==
  /\ Laid /\ pages = paginate(model, FALSE)
  /\ \E p \in 2..Len(pages) :
        /\ pages[p].blocks[1].block.height > CONTENT_HEIGHT_PT
        /\ Len(pages[p - 1].blocks) >= 2
        /\ p < Len(pages)

StrictModes == {"one-page", "two-page"}

\* the attempts of the inner loops when they are run on the roles, the
\* projects and the summary of a model, in a strict mode
InnerLoopsBounded(m, mode) ==
  /\ \A job \in Jobs(m) :
        RoleLoopAttempts(job, 0, IF mode = "one-page" THEN ROLE_MAX_HEIGHT_ONE_PAGE_PT
                                 ELSE ROLE_MAX_HEIGHT_TWO_PAGE_PT) <= 6
  /\ \A project \in Projects(m) :
        ProjectLoopAttempts(project, 0, IF mode = "one-page" THEN PROJECT_MAX_HEIGHT_ONE_PAGE_PT
                                        ELSE PROJECT_MAX_HEIGHT_TWO_PAGE_PT) <= 6
  /\ \A i \in 1..Len(SelectSeqBy(ItemsOf(m, "SUMMARY"), "paragraph")) :
        SummaryLoopAttempts(SelectSeqBy(ItemsOf(m, "SUMMARY"), "paragraph")[i].bullets[1], 0,
                            SummaryMinWords(mode), SummaryMaxWords(mode)) <= 8

\* what holds in every state of a call of adaptToFit
AdaptBounded ==
  /\ Len(applied) <= 5
  /\ requestedMode = "one-page" =>
        Cardinality({i \in 1..Len(applied) : applied[i] # "tight"}) <= 4
  /\ requestedMode = "multi-page" => applied = <<>>
  /\ pc = "adapted" =>
        /\ modeUsed \in {"one-page", "two-page", "multi-page"}
        /\ model # NoModel
        /\ model.sections # <<>>
  /\ (pc \in {"steps", "adapted"} /\ requestedMode \in StrictModes) =>
        InnerLoopsBounded(model, requestedMode)

\* C13: the compressor always terminates with a result.  Every call of
\* adaptToFit returns a model and a mode, after at most 5 compression steps (4
\* and the tight retry for one page, 5 for two pages, none for multi-page);
\* the inner loops stop within 6 attempts per role, 6 per project and 8 for
\* the summary; and a strict request that cannot be honored returns
\* multi-page.
C13_AdaptTerminates ==
  /\ []AdaptBounded
  /\ (pc = "adapt") ~> (pc = "adapted")

\* a strict request ended in multi-page after all its steps, with a role on
\* which the per-role loop used all its attempts
C13_ExhaustedToMultiPage ==
  /\ pc = "adapted" /\ requestedMode \in StrictModes /\ modeUsed = "multi-page"
  /\ Len(applied) = 5
  /\ \E job \in Jobs(model) :
        RoleLoopAttempts(job, 0, IF requestedMode = "one-page" THEN ROLE_MAX_HEIGHT_ONE_PAGE_PT
                                 ELSE ROLE_MAX_HEIGHT_TWO_PAGE_PT) = ROLE_ATTEMPTS

\* C14: mode selection.  In both entry points the requested mode is one-page
\* for requestedPageCount 1 or none, two-page for 2 and multi-page for every
\* other value; the mode assessAtsLayout reports as requested is the one
\* generateAtsOptimizedPdf works with for the same options.
C14_ModeSelection ==
  /\ caller # "none" =>
        requestedMode = (IF options = <<>> \/ options = <<1>> THEN "one-page"
                         ELSE IF options = <<2>> THEN "two-page"
                         ELSE "multi-page")
  /\ (assessment # <<>> /\ caller = "generate") =>
        assessment[1].requestedMode = requestedMode

\* generateAtsOptimizedPdf runs, after the assessment, with a requestedPageCount
\* that is neither 1 nor 2
C14_OtherPageCount ==
  /\ caller = "generate" /\ assessment # <<>>
  /\ options \in {<<0>>, <<3>>}
  /\ requestedMode = "multi-page"

\* assessAtsLayout has just returned: the pages it measured are still in pages
Assessed == assessment # <<>> /\ caller = "assess" /\ pc = "idle"

\* ok, the mode and the page count of the assessment, and its MODE_OVERFLOW
AssessedModeOutcome ==
  /\ assessment[1].ok <=> assessment[1].issues = {}
  /\ (requestedMode = "one-page" /\ assessment[1].ok) =>
        assessment[1].modeUsed = "one-page" /\ assessment[1].pages <= 1
  /\ (requestedMode = "two-page" /\ assessment[1].ok) =>
        assessment[1].modeUsed = "two-page" /\ assessment[1].pages <= 2
  /\ (requestedMode \in StrictModes
        /\ (modeUsed = "multi-page"
             \/ Len(pages) > (IF requestedMode = "one-page" THEN 1 ELSE 2))) =>
        "MODE_OVERFLOW" \in assessment[1].issues

\* C15 as stated: assessment outcome, with PAGE_OVERFLOW reported whenever
\* the usedHeight of some page exceeds the content height.
C15_AssessmentOutcomeAsStated ==
  Assessed =>
     /\ AssessedModeOutcome
     /\ (\E k \in 1..Len(pages) : pages[k].usedHeight > CONTENT_HEIGHT_PT) =>
           "PAGE_OVERFLOW" \in assessment[1].issues

\* C15: assessment outcome.  assessAtsLayout returns ok exactly when its
\* issue list is empty; for a one-page (two-page) request ok implies that the
\* mode used is the requested one and that there is at most 1 page (at most 2);
\* a layout degraded to multi-page or longer than the requested page count has
\* a MODE_OVERFLOW issue; and PAGE_OVERFLOW is reported whenever the usedHeight
\* of some page exceeds the content height by more than 0.5pt.
C15_AssessmentOutcome ==
  Assessed =>
     /\ AssessedModeOutcome
     /\ (\E k \in 1..Len(pages) : pages[k].usedHeight > CONTENT_HEIGHT_PT + 50) =>
           "PAGE_OVERFLOW" \in assessment[1].issues

\* an assessment with a page more than 0.5pt over the content height: not ok,
\* PAGE_OVERFLOW reported
C15_PageOverflowReported ==
  /\ Assessed
  /\ \E k \in 1..Len(pages) : pages[k].usedHeight > CONTENT_HEIGHT_PT + 50
  /\ ~assessment[1].ok
  /\ "PAGE_OVERFLOW" \in assessment[1].issues

\* C16: determinism.  Any two calls of the layout pipeline on the same
\* document and options, however their font loading interleaves and whichever
\* returns first, return the same result: the same fonts, the same mode and the
\* same pages with the same blocks at the same positions.
C16_Deterministic ==
  \A r1, r2 \in 1..MaxCalls :
     (calls[r1].pc = "done" /\ calls[r2].pc = "done") => calls[r1].result = calls[r2].result

\* two calls have returned whose font loading overlapped on a file that is
\* sometimes served and sometimes not
C16_BothReturned ==
  /\ \A r \in 1..MaxCalls : calls[r].pc = "done" /\ calls[r].result[1].measuredPages # <<>>
  /\ server["CalibriBold"] = "flaky"
  /\ fontCache["CalibriBold"] = "null"

\* C18: font cache under concurrency.  However the calls interleave, at most
\* one fetch is issued per font path, and what a call received for a path is
\* what that one fetch settled to, null included; a call that received null
\* goes on to the next candidate or to Helvetica.
C18_SingleFetch ==
  /\ \A path \in FontPaths : fetched[path] <= 1
  /\ \A r \in 1..MaxCalls : \A path \in FontPaths :
        calls[r].got[path] # "none" => calls[r].got[path] = fontCache[path]
  /\ \A r \in 1..MaxCalls :
        (calls[r].pc \in {"resolved", "done"} /\ \E path \in FontPaths : calls[r].got[path] = "null")
          => calls[r].fonts \in {"Arial", "Helvetica"}

\* two calls received the null of the same failed fetch
C18_SharedFailedFetch ==
  \E path \in FontPaths :
     /\ fetched[path] = 1
     /\ \A r \in 1..MaxCalls : calls[r].got[path] = "null"

\* the contact items of a layout, reading its lines in order
RECURSIVE ContactItemsOf(_)
ContactItemsOf(lines) ==
  IF lines = <<>> THEN <<>> ELSE Head(lines).items \o ContactItemsOf(Tail(lines))

ContactRank(f) == CHOOSE i \in 1..Len(ContactFields) : ContactFields[i] = f

\* at most 2 contact lines of at most 3 items each
ContactLinesBounded(lines) ==
  /\ Len(lines) <= 2
  /\ \A i \in 1..Len(lines) : Len(lines[i].items) \in 1..3

\* every non-empty field appears exactly once, with the text it had
ContactFieldsKept(h, lines) ==
  LET items == ContactItemsOf(lines)
  IN /\ \A f \in ContactFieldIds :
          Cardinality({i \in 1..Len(items) : items[i].id = f}) = (IF h[f].w > 0 THEN 1 ELSE 0)
     /\ \A i \in 1..Len(items) : items[i] = h[items[i].id]

\* email, phone and location in this order, and every link after them
ContactPriorityKept(lines) ==
  LET items == ContactItemsOf(lines)
      IsLink(f) == ContactRank(f) > 3
  IN \A i, j \in 1..Len(items) :
        (i < j /\ ~(IsLink(items[i].id) /\ IsLink(items[j].id)))
          => ContactRank(items[i].id) < ContactRank(items[j].id)

\* C17: header contact packing.  For every header, layoutHeader produces at
\* most 2 contact lines of at most 3 items each; every non-empty contact field
\* appears exactly once and unmodified; and reading the lines in order, the
\* items keep the priority order email, phone, location, then links.
C17_ContactPacking ==
  headerLayout # <<>> =>
    /\ ContactLinesBounded(headerLayout[1].contactLines)
    /\ ContactFieldsKept(header, headerLayout[1].contactLines)
    /\ ContactPriorityKept(headerLayout[1].contactLines)

\* the part of C17 that the code keeps: the bounds on lines and items, and
\* every non-empty field exactly once and unmodified
C17_ContactsBoundedAndKept ==
  headerLayout # <<>> =>
    /\ ContactLinesBounded(headerLayout[1].contactLines)
    /\ ContactFieldsKept(header, headerLayout[1].contactLines)

\* the renders of the preview that have resolved
Resolved == {n \in 1..MaxRequests : preview.renders[n].st \in {"installed", "discarded"}}

\* a render superseded by a newer request is never installed, and its URL is revoked
StaleDiscarded ==
  \A n \in Resolved :
     preview.renders[n].superseded => (preview.renders[n].st = "discarded" /\ n \in preview.revoked)

\* the URL of the displayed PDF is not revoked
DisplayedNotRevoked == preview.generatedPdf \notin preview.revoked

\* once every render has resolved, the displayed PDF is that of the last request
LatestDisplayed ==
  (/\ preview.requests > 0
   /\ preview.flushed = preview.requests
   /\ \A n \in 1..preview.requests : preview.renders[n].st \in {"installed", "discarded"})
    => preview.generatedPdf = preview.requests

\* C19: stale preview renders are discarded.  For any interleaving of render
\* requests and render completions, the result of a render superseded by a
\* newer request is never installed as the displayed PDF and its object URL is
\* revoked; the object URL of the displayed PDF is never revoked while it is
\* displayed; and once all renders in flight have completed successfully the
\* displayed PDF is the one of the most recent request.
C19_StaleDiscarded ==
  /\ StaleDiscarded
  /\ DisplayedNotRevoked
  /\ LatestDisplayed

\* the part of C19 that the code keeps: the displayed URL is never revoked,
\* and the last request's PDF is displayed once every render has resolved
C19_DisplayedKept ==
  /\ DisplayedNotRevoked
  /\ LatestDisplayed

\* C20: edit gate.  An edit is committed only if assessAtsLayout of the
\* updated resume with the current requestedPageCount returned ok; if the
\* assessment has an issue, or the request fails, the resume is unchanged and
\* an error is recorded; and the editing flag is cleared in every case.
C20_EditGate ==
  /\ edit.outcome = "committed" =>
        /\ edit.assessment[1].ok /\ edit.assessment[1].issues = {}
        /\ edit.assessment[1].requestedMode = GenRequestedMode(options)
        /\ doc = edit.updatedResume[1]
  /\ edit.outcome = "rejected" =>
        /\ edit.assessment[1].issues # {}
        /\ doc = edit.before[1] /\ edit.editError
  /\ edit.outcome = "failed" => (doc = edit.before[1] /\ edit.editError)
  /\ edit.isEditing <=> edit.pc \in {"posting", "assessing"}

\* an edit was committed, and a later edit with a layout issue was rejected
C20_EditRejected ==
  /\ preview.requests >= 2
  /\ edit.outcome = "rejected"
  /\ edit.assessment[1].issues # {}
  /\ doc = edit.before[1]
  /\ edit.editError /\ ~edit.isEditing

PermittedFrom(intent) ==
  CASE intent = "GENERATE_RESUME" -> 1
    [] intent = "EDIT_RESUME" -> 2
    [] intent \in {"ANALYZE_JD", "ALIGN_WITH_JD"} -> 3
    [] intent = "SCORE_ATS" -> 4

\* C22: orchestrator phase gating.  route returns a non-null agent if and
\* only if an intent was detected and the phase permits it; otherwise it
\* returns UNSUPPORTED with a null agent; the agent is null exactly when the
\* intent is UNSUPPORTED; and what a phase permits every later phase permits.
C22_PhaseGating ==
  ret # <<>> =>
    LET input == arg[1]
        out == ret[1]
        detected == DetectIntent(input)
        permitted == detected # "UNSUPPORTED" /\ input.phase >= PermittedFrom(detected)
    IN /\ out.agentToCall # "null" <=> permitted
       /\ permitted => (out.intent = detected /\ out.agentToCall = AgentOf(detected))
       /\ ~permitted => out.intent = "UNSUPPORTED"
       /\ out.agentToCall = "null" <=> out.intent = "UNSUPPORTED"
       /\ \A later \in input.phase..MaxPhase :
             out.agentToCall # "null" => route([input EXCEPT !.phase = later]) = out

\* an edit was asked for in phase 1 and refused
C22_EditBlocked ==
  /\ ret # <<>>
  /\ arg[1].resumeJSON = "object" /\ "edit" \in arg[1].message /\ arg[1].phase = 1
  /\ ret[1] = [intent |-> "UNSUPPORTED", agentToCall |-> "null"]

\* the '; '-separated parts of a merged bullet
RECURSIVE SemicolonParts(_, _)
SemicolonParts(t, part) ==
  IF t = <<>> THEN (IF part = <<>> THEN <<>> ELSE << part >>)
  ELSE IF LastEnd(Head(t)) = ";"
    THEN << Append(part, DropPunct(Head(t))) >> \o SemicolonParts(Tail(t), <<>>)
  ELSE SemicolonParts(Tail(t), Append(part, Head(t)))

\* mergeBulletsToCount returns min(n, k) bullets, none empty, and the parts of
\* bullet b are the non-empty texts b, b + k, b + 2k, ... in this order
MergedAsStated(bullets, k, out) ==
  LET texts == SelectSeq(bullets, LAMBDA t : t # <<>>)
      n == Len(texts)
      InBucket(b) == SelectSeq([i \in 1..n |-> i], LAMBDA i : (i - 1) % k = b - 1)
  IN /\ Len(out) = Min(n, k)
     /\ \A b \in 1..Len(out) :
          /\ out[b] # <<>>
          /\ LET parts == SemicolonParts(out[b], <<>>)
                 from == InBucket(b)
             IN /\ Len(parts) = Len(from)
                /\ \A j \in 1..Len(parts) : parts[j] = texts[from[j]]

\* enforceConstraints leaves at most 3 bullets per role and at most 4
\* projects, the first four; every word of every project bullet is kept, and
\* those of the projects dropped are in the last project kept
ConstrainedAsStated(m, out) ==
  LET before == SelectSeqBy(ItemsOf(m, "PROJECTS"), "projects")
      after == SelectSeqBy(ItemsOf(out, "PROJECTS"), "projects")
  IN /\ \A job \in Jobs(out) : Len(job.bullets) <= 3
     /\ \A job \in Jobs(m) : \E kept \in Jobs(out) :
           kept.id = job.id /\ WordSources(kept.bullets) = WordSources(job.bullets)
     /\ Len(after) = Min(Len(before), 4)
     /\ \A i \in 1..Len(after) : after[i].id = before[i].id /\ after[i].title = before[i].title
     /\ \A i \in 1..Len(before) :
           WordSources(before[i].bullets) \subseteq WordSources(after[Min(i, 4)].bullets)
     /\ \A i \in 1..Len(after) : i < 4 => after[i].bullets = before[i].bullets

\* C23: bullet merging preserves every bullet.  mergeBulletsToCount returns
\* exactly min(n, k) bullets, every non-empty input text occurs exactly once
\* in the output as a '; '-separated part, text i in bucket i mod k, in order,
\* and no output bullet is empty; enforceConstraints leaves every role with at
\* most 3 bullets and the document with at most 4 projects, the bullets of the
\* extra projects merged into the last kept project.
C23_MergeKeepsBullets ==
  ret # <<>> =>
    /\ arg[1] = "mergeBulletsToCount" => MergedAsStated(arg[2], arg[3], ret[1])
    /\ arg[1] = "enforceConstraints" => ConstrainedAsStated(arg[2], ret[1])

\* a role of five bullets was left with three, and six projects were cut to
\* four, the last with two bullets of three parts each
C23_MergedAndCut ==
  /\ ret # <<>>
  /\ arg[1] = "enforceConstraints"
  /\ \E job \in Jobs(arg[2]) : Len(job.bullets) = 5
  /\ \A job \in Jobs(ret[1]) : Len(job.bullets) = 3
  /\ Len(ItemsOf(arg[2], "PROJECTS")) = 6
  /\ Len(ItemsOf(ret[1], "PROJECTS")) = 4
  /\ \A b \in 1..2 : Len(SemicolonParts(ItemsOf(ret[1], "PROJECTS")[4].bullets[b], <<>>)) = 3

\* the text a shortening function hands to clampWords
TextClamped(fn, t) ==
  CASE fn = "clampWords" -> t
    [] fn = "compressToWordBudget" -> RemoveParentheticals(sanitizeText(t))
    [] fn = "compressBulletToWordRange" -> ReplacePhrases(RemoveParentheticals(sanitizeText(t)))
    [] fn = "compressProjectBulletToWordRange" ->
         removeFillerAdjectives(ReplacePhrases(stripProjectBulletDisallowedPatterns(t)))

\* when the clamp applies, the result is the first N words of the text clamped,
\* the last of them followed by a period
ClampKeepsFirstWords(clamped, N, out) ==
  Len(clamped) > N =>
    /\ Len(out) = N
    /\ \A i \in 1..(N - 1) : out[i] = clamped[i]
    /\ out[N].src = clamped[N].src /\ out[N].cls = clamped[N].cls
    /\ LastEnd(out[N]) = "."

\* C24: text shortening is bounded and never empties text.  For every input
\* of at least one word, clampWords (N >= 1), compressToWordBudget,
\* compressBulletToWordRange and compressProjectBulletToWordRange return a
\* non-empty text, and whenever the clamp applies the result is exactly the
\* first N words of the text being clamped followed by terminal punctuation.
C24_ShorteningKeepsText ==
  ret # <<>> =>
    /\ ret[1] # <<>>
    /\ ClampKeepsFirstWords(TextClamped(arg[1], arg[2]), arg[3], ret[1])

\* the part of C24 that the code keeps: the clamp keeps the first N words
C24_ClampKeepsFirstWords ==
  ret # <<>> => ClampKeepsFirstWords(TextClamped(arg[1], arg[2]), arg[3], ret[1])

\* the words and chunks of the lines, in reading order
RECURSIVE UnwrappedIn(_, _, _)
UnwrappedIn(lines, lo, hi) ==
  IF lo > hi THEN <<>>
  ELSE IF lo = hi THEN lines[lo]
  ELSE UnwrappedIn(lines, lo, (lo + hi) \div 2) \o UnwrappedIn(lines, (lo + hi) \div 2 + 1, hi)

Unwrapped(lines) == UnwrappedIn(lines, 1, Len(lines))

\* the lines hold the words of the text in order, whole or in chunks, with
\* every character once
WordsReproduced(t, lines) ==
  LET out == Unwrapped(lines)
      Of(i) == SelectSeq(out, LAMBDA x : x.src = i)
  IN /\ \A j \in 1..(Len(out) - 1) : out[j].src <= out[j + 1].src
     /\ \A j \in 1..Len(out) : out[j].src \in 1..Len(t)
     /\ \A i \in 1..Len(t) :
          \/ Of(i) = << t[i] >>
          \/ /\ \A j \in 1..Len(Of(i)) : Of(i)[j].cls = "k" /\ Of(i)[j].w > 0
             /\ SumSeq([j \in 1..Len(Of(i)) |-> Of(i)[j].w]) = t[i].w

SkillsLinesOf(m) ==
  LET found == SelectSeqBy(ItemsOf(m, "SKILLS"), "skills")
  IN IF found = <<>> THEN <<>> ELSE found[1].lines

\* the first five skills of the line are those of `before`, uncut
CoreKept(before, after) ==
  \A k \in 1..Min(SKILLS_CORE, Len(before.skills)) :
     Len(after.skills) >= k /\ after.skills[k] = before.skills[k]

\* C26: skills contract.  After enforceSkillsContracts in a strict mode the
\* SKILLS item has at most 4 lines, each of at most 90 characters, each
\* category keeps at most the mode's maximum of skills (8 in one-page, 10 in
\* two-page), and the first five skills of every category are neither
\* removed nor cut.
C26_SkillsContract ==
  ret # <<>> =>
    LET before == SkillsLinesOf(arg[1])
        after == SkillsLinesOf(ret[1])
        maxPerCategory == IF arg[2] = "one-page" THEN SKILLS_MAX_PER_CATEGORY_ONE_PAGE
                          ELSE SKILLS_MAX_PER_CATEGORY_TWO_PAGE
    IN /\ Len(after) <= SKILLS_MAX_LINES
       /\ \A i \in 1..Len(after) :
            /\ LineChars(after[i]) <= SKILLS_MAX_CHARS_PER_LINE
            /\ Len(after[i].skills) <= maxPerCategory
            /\ CoreKept(before[i], after[i])

ContractIssues ==
  {"SUMMARY_CONTRACT", "EXPERIENCE_CONTRACT", "PROJECTS_CONTRACT", "SKILLS_CONTRACT",
   "EDUCATION_CONTRACT"}

\* the number of bullets of the entries of the model
BulletCount(m) ==
  LET Of(title) == ItemsOf(m, title)
      Count(title) == SumSeq([i \in 1..Len(Of(title)) |-> Len(Of(title)[i].bullets)])
  IN Count("EXPERIENCE") + Count("PROJECTS")

\* C27: multi-page mode always succeeds without enforcing budgets.  For a
\* multi-page request adaptToFit discards no content (every role, project,
\* education entry and bullet of the built model is still in the returned one)
\* and assessAtsLayout reports no SUMMARY, EXPERIENCE, PROJECTS, SKILLS or
\* EDUCATION contract issue.
C27_MultiPageKeepsAll ==
  requestedMode = "multi-page" =>
     /\ Returned =>
          /\ \A title \in EntrySections : EntryIds(base, title) \subseteq EntryIds(model, title)
          /\ BulletCount(model) = BulletCount(base)
     /\ Assessed => assessment[1].issues \cap ContractIssues = {}

\* the blocks of the page that come before the first block of the section
RECURSIVE BlocksBefore(_, _)
BlocksBefore(blocks, title) ==
  IF blocks = <<>> \/ Head(blocks).block.title = title THEN <<>>
  ELSE << Head(blocks) >> \o BlocksBefore(Tail(blocks), title)

\* the height a page uses for the blocks given, gaps between them included
UsedBy(blocks) ==
  IF blocks = <<>> THEN 0
  ELSE blocks[Len(blocks)].yTop + blocks[Len(blocks)].block.height - MARGIN_PT

\* the roles on a page
JobsOn(page) ==
  Cardinality({i \in 1..Len(page.blocks) : page.blocks[i].block.title = "EXPERIENCE"})

FitTestMirrorsAllocator(m) ==
  LET Mirrors(allocated) ==
        /\ EducationFitPlacedJobs(m) = JobsOn(allocated[1])
        /\ EducationFitUsed2(m) = UsedBy(BlocksBefore(allocated[2].blocks, "EDUCATION"))
  IN Mirrors(TwoPageAllocation(m))

\* the education entries of the model
EducationEntries(m) == SelectSeqBy(ItemsOf(m, "EDUCATION"), "educationEntry")

\* page 2 of the strict allocation, up to and including EDUCATION, is within
\* the content height
EducationFitsPage2(m) ==
  LET Fits(blocks) ==
        \E i \in 1..Len(blocks) :
           /\ blocks[i].block.title = "EDUCATION"
           /\ blocks[i].yTop + blocks[i].block.height - MARGIN_PT <= CONTENT_HEIGHT_PT
  IN Fits(TwoPageAllocation(m)[2].blocks)

\* the model with its first n education entries
WithEntries(m, n) == MapSection(m, "EDUCATION", Slice(EducationEntries(m), n))

\* when the fit test accepts n entries, page 2 of the strict allocation with
\* those n entries fits up to and including EDUCATION
AcceptedEntriesFit(m) ==
  \A n \in 1..EDUCATION_MAX_ENTRIES_TWO_PAGE :
     (Len(EducationEntries(m)) >= n /\ canEducationFitOnPage2(m, n)) =>
        EducationFitsPage2(WithEntries(m, n))

PageConsistent(page, gapSection) ==
  LET blocks == page.blocks
  IN /\ blocks # <<>> => blocks[1].yTop = MARGIN_PT
     /\ \A i \in 2..Len(blocks) :
          blocks[i].yTop = blocks[i - 1].yTop + blocks[i - 1].block.height + gapSection
     /\ page.usedHeight = SumSeq([i \in 1..Len(blocks) |-> blocks[i].block.height])
                            + Max(0, Len(blocks) - 1) * gapSection

\* C29: block positions are consistent with the height accounting on every
\* page of both paginators.  The first block of every page is at the margin,
\* each later block starts where the block before ends plus exactly one
\* section gap (so that blocks never overlap), and usedHeight is the sum of
\* the block heights plus one section gap per adjacent pair of blocks.
C29_BlockPositions ==
  \A k \in 1..Len(pages) : PageConsistent(pages[k], GAP_BETWEEN_SECTIONS)

\* at most one run executes, runs start in submission order, a rejected run
\* has made its own attempts, and a run goes on only after a rate-limit error
QueueSerialized ==
  /\ Cardinality({r \in 1..MaxRuns : runs[r].st = "running"}) <= 1
  /\ Len(started) <= Len(submitted) /\ started = SubSeq(submitted, 1, Len(started))
  /\ \A r \in 1..MaxRuns :
       /\ runs[r].attempts <= MAX_ATTEMPTS
       /\ runs[r].st = "failed" =>
            /\ runs[r].attempts >= 1
            /\ runs[r].attempts = MAX_ATTEMPTS \/ ~runs[r].rateLimited
       /\ (runs[r].st = "running" /\ runs[r].attempts >= 1) => runs[r].rateLimited
       /\ runs[r].st = "running" =>
            \A q \in 1..MaxRuns : (q # r /\ runs[q].st \in {"done", "failed"}) =>
               \E i, j \in 1..Len(submitted) : i < j /\ submitted[i] = q /\ submitted[j] = r

\* C30: server-side provider calls are serialized.  Under any interleaving of
\* requests at most one run submitted through runGeminiWithPacingAndRetry
\* executes at a time and runs start in submission order; a run that fails
\* rejects only its own caller and every queued run is still executed in the
\* end; each run makes at most 4 attempts and goes on only after a rate-limit
\* error.
C30_QueueSerialized ==
  /\ []QueueSerialized
  /\ \A r \in 1..MaxRuns :
       (runs[r].st = "queued") ~> (runs[r].st \in {"done", "failed"} /\ runs[r].attempts >= 1)

\* a run was rejected after its fourth rate-limit error, and the run queued
\* behind it was executed and fulfilled on its second attempt
C30_LaterRunExecuted ==
  \E r, q \in 1..MaxRuns :
     /\ Len(submitted) >= 2 /\ submitted[1] = r /\ submitted[2] = q /\ q < r
     /\ runs[r].st = "failed" /\ runs[r].attempts = MAX_ATTEMPTS
     /\ runs[q].st = "done" /\ runs[q].attempts = 2

====
